---- MODULE Spec2Model ----
(***************************************************************************)
(* Ralph: PRD store (state.ts), orchestration loop (orchestrator.ts) and   *)
(* testing loop (testing.ts).  A PRD lives in one of four status folders; *)
(* its lifecycle state is the folder that holds its directory.            *)
(***************************************************************************)
EXTENDS Integers, Sequences, FiniteSets, TLC

VARIABLES
    fs,      \* status folder -> PRD name -> directory (kind and prd.json content)
    run,     \* the runOrchestration execution (position, locals, counters)
    test,    \* the runTesting execution
    lastOp,  \* the last store call made by a caller, with what it returned
    findings, \* the project-level findings.md: the PRD of each appended section
    dirs,    \* the state directory skeleton: path -> "none", "dir" or "file"
    shutdown, \* the interrupt handler of the process that runs runOrchestration
    runner,  \* runner.json: PRD name -> tracked run, and the panes of the session
    child,   \* the agent process of runAgent, once with stream and once without
    fileOutput \* the FileOutput of the logger and its log file

vars == <<fs, run, test, lastOp, findings, dirs, shutdown, runner, child, fileOutput>>

----------------------------------------------------------------------------
(* Bounds *)

MaxStories == 2      \* stories declared in a PRD at creation
MaxQuestions == 2    \* questions of a blocked story, answers of an unblock call
MaxSelect == 3       \* stories of the PRD handed to getNextStory
MaxPriority == 2     \* priorities 1..MaxPriority
MaxIterations == 2   \* config.default_iterations
MaxMetric == 3       \* metrics.iterations above which no further run is started
MaxFix == 2          \* fix stories of a PRD above which no further test pass is started
MaxIssues == 2       \* bulleted issues of the <issues> block of the QA output
MaxFindings == 2     \* sections appended to the project-level findings.md
MaxSync == 3         \* consecutive runs of the sync hook
MaxSignals == 3      \* SIGINT/SIGTERM signals delivered to one process
MaxData == 2         \* data events of the agent process on stdout and stderr
MaxEntries == 4      \* entries passed to FileOutput.write

----------------------------------------------------------------------------
(* Data *)

Names == {"a", "b"}

Statuses == {"pending", "in_progress", "testing", "completed"}

ALL_STATUSES == <<"pending", "in_progress", "testing", "completed">>

StoryStatuses == {"pending", "in_progress", "completed", "blocked"}

\* A story id is a prefix and the decimal digits after the dash ("US-001").
StoryId(pfx, digits) == [pfx |-> pfx, digits |-> digits]

NoStoryId == StoryId("", <<>>)

NoRun == [storyId |-> NoStoryId, reason |-> ""]

\* answers is optional: {} when absent, {<<...>>} when set.
\* An acceptance criterion: what it is for and the text it carries.
Criterion(kind, text) == [kind |-> kind, text |-> text]

Story(id, status, priority, questions) ==
    [id |-> id, status |-> status, priority |-> priority,
     acceptanceCriteria |-> <<Criterion("given", "AC")>>, questions |-> questions,
     answers |-> {}, iterationCount |-> 0]

NewPRD(name, stories, deps) ==
    [name |-> name, description |-> "d0", stories |-> stories,
     dependencies |-> deps, lastRun |-> NoRun, metrics |-> 0,
     startedAt |-> FALSE, completedAt |-> FALSE]

NoPRD == NewPRD("", <<>>, <<>>)

\* kind: "none" no directory, "dir" a directory without prd.json and spec.md,
\* "spec" a directory with spec.md only, "prd" a directory with prd.json.
\* Beside prd.json: verification.md exists, test-results/report.md ("none",
\* "clean", or "failing" when it lists a failed item or an issue), the number of
\* sections appended to the PRD's findings.md, and whether progress.txt holds a
\* patterns or learnings section.
NoFiles == [verification |-> FALSE, report |-> "none", findings |-> 0, progress |-> FALSE]

NoDir == [kind |-> "none", prd |-> NoPRD, files |-> NoFiles]
StrayDir == [kind |-> "dir", prd |-> NoPRD, files |-> NoFiles]
SpecDir == [kind |-> "spec", prd |-> NoPRD, files |-> NoFiles]
PRDDir(prd, files) == [kind |-> "prd", prd |-> prd, files |-> files]

EmptyFS == [s \in Statuses |-> [n \in Names |-> NoDir]]

Min(S) == CHOOSE x \in S : \A y \in S : x <= y
Max(S) == CHOOSE x \in S : \A y \in S : x >= y

Ok(v) == [ok |-> TRUE, err |-> "", val |-> v]
Err(e) == [ok |-> FALSE, err |-> e, val |-> NoPRD]

----------------------------------------------------------------------------
(* state.ts *)

FoundAt(f, name) == {i \in 1..4 : f[ALL_STATUSES[i]][name].kind \in {"prd", "spec"}}

findPRDLocation(f, name) ==
    IF FoundAt(f, name) = {} THEN "null" ELSE ALL_STATUSES[Min(FoundAt(f, name))]

getPRD(f, name) ==
    LET status == findPRDLocation(f, name) IN
    IF status = "null" \/ f[status][name].kind # "prd"
    THEN Err("PRD not found")
    ELSE Ok(f[status][name].prd)

\* atomicWrite of prd.json at the path findPRDLocation gives
WritePRD(f, name, prd) ==
    [f EXCEPT ![findPRDLocation(f, name)][name] = PRDDir(prd, @.files)]

\* {...existingPRD, ...updates} without the name pinned
MergePRDNoPin(existing, updates) ==
    [k \in DOMAIN existing |-> IF k \in DOMAIN updates THEN updates[k] ELSE existing[k]]

MergePRD(existing, updates) ==
    [k \in DOMAIN existing |->
        IF k = "name" THEN existing.name
        ELSE IF k \in DOMAIN updates THEN updates[k] ELSE existing[k]]

\* returns the file system after the call and the call's result
updatePRD(f, name, updates) ==
    LET r == getPRD(f, name) IN
    IF ~r.ok THEN [fs |-> f, res |-> r]
    ELSE LET updatedPRD == MergePRD(r.val, updates) IN
         [fs |-> WritePRD(f, name, updatedPRD), res |-> Ok(updatedPRD)]

savePRD(f, name, prd) ==
    IF findPRDLocation(f, name) = "null" THEN [fs |-> f, res |-> Err("PRD not found")]
    ELSE [fs |-> WritePRD(f, name, prd), res |-> Ok(prd)]

\* movePRD without the early return for the status the PRD is in
movePRDNoSameStatus(f, name, toStatus) ==
    LET currentStatus == findPRDLocation(f, name) IN
    IF currentStatus = "null" THEN [fs |-> f, res |-> Err("PRD not found")]
    ELSE IF f[toStatus][name].kind # "none" THEN [fs |-> f, res |-> Err("PRD already exists")]
    ELSE [fs |-> [f EXCEPT ![toStatus][name] = f[currentStatus][name],
                           ![currentStatus][name] = NoDir],
          res |-> Ok(NoPRD)]

\* movePRD without the existsSync check of the destination: the rename replaces
\* what the destination holds
movePRDNoDestCheck(f, name, toStatus) ==
    LET currentStatus == findPRDLocation(f, name) IN
    IF currentStatus = "null" THEN [fs |-> f, res |-> Err("PRD not found")]
    ELSE IF currentStatus = toStatus THEN [fs |-> f, res |-> Ok(NoPRD)]
    ELSE [fs |-> [f EXCEPT ![toStatus][name] = f[currentStatus][name],
                           ![currentStatus][name] = NoDir],
          res |-> Ok(NoPRD)]

\* movePRD that copies the folder and leaves the source where it is
movePRDKeepsSource(f, name, toStatus) ==
    LET currentStatus == findPRDLocation(f, name) IN
    IF currentStatus = "null" THEN [fs |-> f, res |-> Err("PRD not found")]
    ELSE IF currentStatus = toStatus THEN [fs |-> f, res |-> Ok(NoPRD)]
    ELSE IF f[toStatus][name].kind # "none" THEN [fs |-> f, res |-> Err("PRD already exists")]
    ELSE [fs |-> [f EXCEPT ![toStatus][name] = f[currentStatus][name]],
          res |-> Ok(NoPRD)]

movePRD(f, name, toStatus) ==
    LET currentStatus == findPRDLocation(f, name) IN
    IF currentStatus = "null" THEN [fs |-> f, res |-> Err("PRD not found")]
    ELSE IF currentStatus = toStatus THEN [fs |-> f, res |-> Ok(NoPRD)]
    ELSE IF f[toStatus][name].kind # "none" THEN [fs |-> f, res |-> Err("PRD already exists")]
    ELSE [fs |-> [f EXCEPT ![toStatus][name] = f[currentStatus][name],
                           ![currentStatus][name] = NoDir],
          res |-> Ok(NoPRD)]

NoStory == Story(NoStoryId, "", 0, <<>>)

\* Array.prototype.sort with (a, b) => a.priority - b.priority: a stable sort,
\* written as the insertion of each element behind the elements that do not
\* compare greater than it.
\* an unstable sort: an element goes before the elements it compares equal to
RECURSIVE InsertBeforeEqual(_, _)
InsertBeforeEqual(sorted, x) ==
    IF sorted = <<>> THEN <<x>>
    ELSE IF x.priority - Head(sorted).priority <= 0 THEN <<x>> \o sorted
    ELSE <<Head(sorted)>> \o InsertBeforeEqual(Tail(sorted), x)

RECURSIVE InsertByPriority(_, _)
InsertByPriority(sorted, x) ==
    IF sorted = <<>> THEN <<x>>
    ELSE IF x.priority - Head(sorted).priority < 0 THEN <<x>> \o sorted
    ELSE <<Head(sorted)>> \o InsertByPriority(Tail(sorted), x)

RECURSIVE SortByPriority(_)
SortByPriority(stories) ==
    IF stories = <<>> THEN <<>>
    ELSE InsertByPriority(SortByPriority(SubSeq(stories, 1, Len(stories) - 1)),
                          stories[Len(stories)])

IsWorkable(story) == story.status = "pending" \/ story.status = "in_progress"

\* workableStories[0] ?? null
NextStoryOf(stories) ==
    LET workableStories == SortByPriority(SelectSeq(stories, IsWorkable)) IN
    IF workableStories = <<>> THEN NoStory ELSE workableStories[1]

getNextStory(f, name) ==
    LET r == getPRD(f, name) IN
    IF ~r.ok THEN r ELSE Ok(NextStoryOf(r.val.stories))

FindStory(stories, storyId) ==
    LET hits == {i \in 1..Len(stories) : stories[i].id = storyId} IN
    IF hits = {} THEN 0 ELSE Min(hits)

\* questions is optional: {} when the argument is left out
updateStoryStatus(f, name, storyId, status, questions) ==
    LET r == getPRD(f, name) IN
    IF ~r.ok THEN [fs |-> f, res |-> r]
    ELSE LET i == FindStory(r.val.stories, storyId) IN
         IF i = 0 THEN [fs |-> f, res |-> Err("Story not found")]
         ELSE LET story == [r.val.stories[i] EXCEPT
                               !.status = status,
                               !.questions = IF questions = {} THEN @
                                             ELSE CHOOSE q \in questions : TRUE]
                  stories == [r.val.stories EXCEPT ![i] = story]
              IN updatePRD(f, name, [stories |-> stories])

\* unblockStory without the comparison of the two lengths
unblockStoryAnyCount(f, name, storyId, answers) ==
    LET r == getPRD(f, name) IN
    IF ~r.ok THEN [fs |-> f, res |-> r]
    ELSE LET i == FindStory(r.val.stories, storyId) IN
         IF i = 0 THEN [fs |-> f, res |-> Err("Story not found")]
         ELSE IF r.val.stories[i].status # "blocked"
              THEN [fs |-> f, res |-> Err("Story is not blocked")]
         ELSE LET story == [r.val.stories[i] EXCEPT
                               !.answers = {answers}, !.status = "pending"]
                  stories == [r.val.stories EXCEPT ![i] = story]
              IN updatePRD(f, name, [stories |-> stories])

unblockStory(f, name, storyId, answers) ==
    LET r == getPRD(f, name) IN
    IF ~r.ok THEN [fs |-> f, res |-> r]
    ELSE LET i == FindStory(r.val.stories, storyId) IN
         IF i = 0 THEN [fs |-> f, res |-> Err("Story not found")]
         ELSE IF r.val.stories[i].status # "blocked"
              THEN [fs |-> f, res |-> Err("Story is not blocked")]
         ELSE IF Len(answers) # Len(r.val.stories[i].questions)
              THEN [fs |-> f, res |-> Err("Expected answers")]
         ELSE LET story == [r.val.stories[i] EXCEPT
                               !.answers = {answers}, !.status = "pending"]
                  stories == [r.val.stories EXCEPT ![i] = story]
              IN updatePRD(f, name, [stories |-> stories])

updateLastRun(f, name, lastRun) == updatePRD(f, name, [lastRun |-> lastRun])

LastRun(storyId, reason) == [storyId |-> storyId, reason |-> reason]

markPRDStarted(f, name) ==
    LET r == getPRD(f, name) IN
    IF ~r.ok THEN [fs |-> f, res |-> r]
    ELSE IF ~r.val.startedAt THEN updatePRD(f, name, [startedAt |-> TRUE])
    ELSE [fs |-> f, res |-> r]

markPRDCompleted(f, name) == updatePRD(f, name, [completedAt |-> TRUE])

\* newMetrics carries iterations only where the loop calls it for an iteration
updateMetrics(f, name, iterations) ==
    LET r == getPRD(f, name) IN
    IF ~r.ok THEN [fs |-> f, res |-> r]
    ELSE updatePRD(f, name, [metrics |-> r.val.metrics + iterations])

AllCompleted(stories) == \A i \in 1..Len(stories) : stories[i].status = "completed"

isPRDComplete(f, name) ==
    LET r == getPRD(f, name) IN
    IF ~r.ok THEN r ELSE Ok(AllCompleted(r.val.stories))

\* hasBlockedStories finding none
hasBlockedStoriesNone(f, name) ==
    LET r == getPRD(f, name) IN
    IF ~r.ok THEN r ELSE Ok(<<>>)

hasBlockedStories(f, name) ==
    LET r == getPRD(f, name) IN
    IF ~r.ok THEN r
    ELSE Ok(SelectSeq(r.val.stories, LAMBDA story : story.status = "blocked"))

\* isPRDCompleteOrArchived taking every PRD outside pending and testing for complete
isPRDCompleteOrArchivedElsewhere(f, name) ==
    LET status == findPRDLocation(f, name) IN
    IF status = "pending" \/ status = "testing" THEN isPRDComplete(f, name)
    ELSE Ok(TRUE)

isPRDCompleteOrArchived(f, name) ==
    LET status == findPRDLocation(f, name) IN
    IF status = "completed" THEN Ok(TRUE)
    ELSE IF status = "pending" \/ status = "testing" THEN isPRDComplete(f, name)
    ELSE Ok(FALSE)

\* the dependencies of name that are not complete, in declaration order; the
\* call throws when name or a dependency found in pending or testing has no prd.json
getUnmetDependencies(f, name) ==
    LET r == getPRD(f, name) IN
    IF ~r.ok THEN r
    ELSE LET deps == r.val.dependencies
             failing == {i \in 1..Len(deps) : ~isPRDCompleteOrArchived(f, deps[i]).ok}
         IN IF failing # {} THEN isPRDCompleteOrArchived(f, deps[Min(failing)])
            ELSE Ok(SelectSeq(deps, LAMBDA dep : ~isPRDCompleteOrArchived(f, dep).val))

canStartPRD(f, name) ==
    LET r == getUnmetDependencies(f, name) IN
    IF ~r.ok THEN r
    ELSE Ok([canStart |-> Len(r.val) = 0, unmetDependencies |-> r.val])

\* Number.parseInt(digits, 10): -1 stands for NaN (no digit)
RECURSIVE DigitsValue(_)
DigitsValue(digits) ==
    IF digits = <<>> THEN 0
    ELSE 10 * DigitsValue(SubSeq(digits, 1, Len(digits) - 1)) + digits[Len(digits)]

parseInt(digits) == IF digits = <<>> THEN -1 ELSE DigitsValue(digits)

\* String(n)
RECURSIVE ToDigits(_)
ToDigits(n) == IF n < 10 THEN <<n>> ELSE ToDigits(n \div 10) \o <<n % 10>>

\* padStart(3, "0")
RECURSIVE PadStart3(_)
PadStart3(digits) == IF Len(digits) >= 3 THEN digits ELSE PadStart3(<<0>> \o digits)

RECURSIVE MaxFixNum(_, _)
MaxFixNum(stories, max) ==
    IF stories = <<>> THEN max
    ELSE LET num == parseInt(Head(stories).id.digits) IN
         MaxFixNum(Tail(stories), IF num = -1 THEN max ELSE IF num > max THEN num ELSE max)

\* the number of fix stories plus one instead of the highest fix number plus one
NextFixStoryIdByCount(stories) ==
    LET fixStories == SelectSeq(stories, LAMBDA s : s.id.pfx = "FIX")
    IN StoryId("FIX", PadStart3(ToDigits(Len(fixStories) + 1)))

NextFixStoryIdOf(stories) ==
    LET fixStories == SelectSeq(stories, LAMBDA s : s.id.pfx = "FIX")
        maxNum == MaxFixNum(fixStories, 0)
    IN StoryId("FIX", PadStart3(ToDigits(maxNum + 1)))

getNextFixStoryId(f, name) ==
    LET r == getPRD(f, name) IN
    IF ~r.ok THEN r ELSE Ok(NextFixStoryIdOf(r.val.stories))

FixCriteria(issues) ==
    <<Criterion("review", "test-results/report.md")>>
    \o [i \in 1..Len(issues) |-> Criterion("fix", issues[i])]
    \o <<Criterion("verify", "Ensure all items in verification.md pass"),
         Criterion("quality", "All project quality checks must pass")>>

FixStory(storyId, issues) ==
    [id |-> storyId, status |-> "pending", priority |-> 1,
     acceptanceCriteria |-> FixCriteria(issues), questions |-> <<>>,
     answers |-> {}, iterationCount |-> 0]

addFixStory(f, name, issues) ==
    LET r == getPRD(f, name) IN
    IF ~r.ok THEN [fs |-> f, res |-> r]
    ELSE LET storyId == getNextFixStoryId(f, name).val
             prd == [r.val EXCEPT !.stories = Append(@, FixStory(storyId, issues))]
         IN savePRD(f, name, prd)

----------------------------------------------------------------------------
(* sync.ts: the sync hook *)

\* a path is the sequence of its components below the project root
RALPH_DIR == <<".omni/state/ralph">>
PRDS_DIR == RALPH_DIR \o <<"prds">>

StatusDir(status) == PRDS_DIR \o <<status>>

Paths == {RALPH_DIR, PRDS_DIR} \cup {StatusDir(s) : s \in Statuses}

Prefixes(path) == {SubSeq(path, 1, k) : k \in 1..Len(path)}

\* the skeleton once every directory of it exists
StateDirs == [q \in Paths |-> "dir"]

\* mkdirSync(path): without the recursive flag an existing path is an error
\* (EEXIST) and so is a missing parent (ENOENT)
mkdirSyncNotRecursive(d, path) ==
    IF d[path] # "none" THEN [ok |-> FALSE, err |-> "EEXIST", dirs |-> d]
    ELSE IF \E q \in Prefixes(path) \ {path} : d[q] # "dir"
    THEN [ok |-> FALSE, err |-> "ENOENT", dirs |-> d]
    ELSE [ok |-> TRUE, err |-> "", dirs |-> [d EXCEPT ![path] = "dir"]]

\* mkdirSync(path, { recursive: true }): creates the missing directories of the
\* path and accepts the existing ones; a file on the path is an error
mkdirSync(d, path) ==
    IF \E q \in Prefixes(path) : d[q] = "file"
    THEN [ok |-> FALSE, err |-> IF d[path] = "file" THEN "EEXIST" ELSE "ENOTDIR", dirs |-> d]
    ELSE [ok |-> TRUE, err |-> "",
          dirs |-> [q \in Paths |-> IF q \in Prefixes(path) THEN "dir" ELSE d[q]]]

\* the directories sync creates, in the order of its calls
SyncPaths == <<RALPH_DIR, StatusDir("pending"), StatusDir("testing"), StatusDir("completed")>>

RECURSIVE SyncFrom(_, _)
SyncFrom(d, k) ==
    IF k > Len(SyncPaths) THEN [ok |-> TRUE, err |-> "", dirs |-> d]
    ELSE LET r == mkdirSync(d, SyncPaths[k])
         IN IF r.ok THEN SyncFrom(r.dirs, k + 1) ELSE r

sync(d) == SyncFrom(d, 1)

----------------------------------------------------------------------------
(* Store calls made by a caller (the command line) *)

\* isShuttingDown: the module flag; flushing: calls of handleShutdown awaiting
\* updateLastRun; exiting: calls about to run process.exit; flushes, exits and
\* signals count what has happened; story: the storyId handed to updateLastRun;
\* held: the PRD that the getPRD of that updateLastRun resolved with
NoShutdown == [isShuttingDown |-> FALSE, flushing |-> 0, exiting |-> 0,
               flushes |-> 0, exits |-> 0, signals |-> 0, story |-> NoStoryId,
               held |-> NoPRD]

\* the status of a tracked run; "none" for a PRD without an entry in runs
RunStatuses == {"running", "stale", "completed"}

\* One call of upsertRun, updateRunStatus or removeRun taken one await at a
\* time: state is the RunnerState it loaded and changed, res its result.
NoCall == [pc |-> "idle", op |-> "", status |-> "", state |-> <<>>, res |-> ""]

\* runs: the entries of runner.json; panes: what isPaneAlive answers for the
\* pane of each run ("error" for a failed check); readable, writable: whether
\* runner.json can be read and replaced.  Here: no run tracked.
NoRunner == [runs |-> [name \in Names |-> "none"], panes |-> [name \in Names |-> "alive"],
             readable |-> TRUE, writable |-> TRUE, tmp |-> <<>>,
             calls |-> [name \in Names |-> NoCall]]

\* A FileOutput: buffer, flushPromise (whether it is set) and ensuredDir are
\* its fields; pc is where the flush is ("none" without one, "delay" in the
\* timer, "mkdir", "append"), entries the batch the flush took, file the lines
\* of the log file, written the number of write calls, failed the entries of
\* the batches that mkdir or appendFile rejected.
NoFileOutput == [buffer |-> <<>>, flushPromise |-> FALSE, ensuredDir |-> FALSE,
                 pc |-> "none", entries |-> <<>>, file |-> <<>>, written |-> 0,
                 failed |-> {}]

\* One call of runAgent: the locals of the promise executor (texts are
\* sequences of tokens), the number of data events so far, and what the
\* promise resolved with.
NewAgentProcess(stream) ==
    [stream |-> stream, stdout |-> <<>>, stderr |-> <<>>, lineBuffer |-> <<>>,
     plainText |-> <<>>, events |-> 0, pc |-> "running", output |-> <<>>, exitCode |-> 0]

\* the same child process under runAgent with stream = true and with stream = false
NoChild == [stream \in BOOLEAN |-> NewAgentProcess(stream)]

\* buf: what appendToFindings read of the project-level findings.md
IdleRun == [pc |-> "idle", prd |-> "", i |-> 0, currentStory |-> NoStoryId,
            agentCalls |-> 0, unmetAtStart |-> FALSE, err |-> "", buf |-> <<>>]

\* What runTesting sees of the QA output: the two markers, whether it lists an
\* unchecked item, and the <issues> block.
QAOutput(verified, failed, unchecked, issues) ==
    [verified |-> verified, failed |-> failed, unchecked |-> unchecked, issues |-> issues]

NoOutput == QAOutput(FALSE, FALSE, FALSE, {})

\* status: the folder runTesting found the PRD in; output: what the QA agent returned
\* env: the test environment, "up" once the setup and start scripts have run,
\* "down" once the teardown script has run after them
\* scripts: the scripts of the last cycle of the health check loop, in order;
\* health, fix: inside the loop, what waitForHealthCheck and the fix agent
\* returned last
IdleTest == [pc |-> "idle", prd |-> "", status |-> "", attempt |-> 0, focused |-> FALSE,
             fixCalls |-> 0, qaCalls |-> 0, output |-> NoOutput, result |-> "", err |-> "",
             env |-> "none", buf |-> <<>>,
             scripts |-> <<>>, health |-> "none", fix |-> "none"]

\* at: the folder a movePRD call found the PRD in (its currentStatus)
NoOp == [op |-> "", name |-> "", arg |-> <<>>, at |-> "", ok |-> TRUE, err |-> "", ret |-> NoPRD]

\* a call that answers a question: what it returned
Call(op, name, arg, res) ==
    [op |-> op, name |-> name, arg |-> arg, at |-> "", ok |-> res.ok, err |-> res.err, ret |-> res.val]

\* a call that changes the store: whether it threw
Did(op, name, arg, res) ==
    [op |-> op, name |-> name, arg |-> arg, at |-> "", ok |-> res.ok, err |-> res.err, ret |-> NoPRD]

Idle == run.pc = "idle" /\ test.pc = "idle"

MovePRD(name, toStatus) ==
    /\ Idle
    /\ LET r == movePRD(fs, name, toStatus) IN
        /\ fs' = r.fs
        /\ lastOp' = [Did("movePRD", name, toStatus, r.res) EXCEPT !.at = findPRDLocation(fs, name)]
    /\ UNCHANGED <<run, test, findings, dirs, shutdown, runner, child, fileOutput>>

\* Partial<PRD> payloads of a caller
Payloads ==
    { <<>>,
      [description |-> "d1"],
      [name |-> "other"],
      [name |-> "other", description |-> "d1"],
      [dependencies |-> <<"b">>] }

UpdatePRD(name, updates) ==
    /\ Idle
    /\ LET r == updatePRD(fs, name, updates) IN
        /\ fs' = r.fs
        /\ lastOp' = Did("updatePRD", name, updates, r.res)
    /\ UNCHANGED <<run, test, findings, dirs, shutdown, runner, child, fileOutput>>

US(n) == StoryId("US", <<0, 0, n>>)

Answers == {[i \in 1..k |-> "A"] : k \in 0..MaxQuestions}

UnblockStory(name, storyId, answers) ==
    /\ Idle
    /\ LET r == unblockStory(fs, name, storyId, answers) IN
        /\ fs' = r.fs
        /\ lastOp' = Did("unblockStory", name, <<storyId, answers>>, r.res)
    /\ UNCHANGED <<run, test, findings, dirs, shutdown, runner, child, fileOutput>>

CanStartPRD(name) ==
    /\ Idle
    /\ lastOp' = Call("canStartPRD", name, <<>>, canStartPRD(fs, name))
    /\ UNCHANGED <<fs, run, test, findings, dirs, shutdown, runner, child, fileOutput>>

\* the hook run once more by "omnidev agents sync"; arg counts the runs in a row
SyncRuns == IF lastOp.op = "sync" THEN lastOp.arg ELSE 0

Sync ==
    /\ Idle
    /\ SyncRuns < MaxSync
    /\ LET r == sync(dirs) IN
        /\ dirs' = r.dirs
        /\ lastOp' = Did("sync", "", SyncRuns + 1, r)
    /\ UNCHANGED <<fs, run, test, findings, shutdown, runner, child, fileOutput>>

GetNextStory(name) ==
    /\ Idle
    /\ lastOp' = Call("getNextStory", name, <<>>, getNextStory(fs, name))
    /\ UNCHANGED <<fs, run, test, findings, dirs, shutdown, runner, child, fileOutput>>

----------------------------------------------------------------------------
(* orchestrator.ts *)

\* What the detectors see of an agent output: the unit-completion marker, the
\* completion patterns (1..5) and blocked patterns (1..4) that match, and what
\* the JSON pattern captures: the status text, as written, of the first
\* fragment whose status field reads completed or blocked in any letter case
\* ("none" when no fragment matches).
Output(complete, completion, block, json) ==
    [complete |-> complete, completion |-> completion, block |-> block, json |-> json]

parseStatusFromOutput(output) ==
    LET completionHints == Cardinality(output.completion) IN
    IF output.block # {} THEN "blocked"
    ELSE IF completionHints >= 2 THEN "completed"
    ELSE IF output.json # "none" THEN output.json
    ELSE "null"

\* the texts the case-insensitive group (completed|blocked) captures, by example
JsonTexts == {"completed", "blocked", "COMPLETED", "Blocked"}

\* a caller classifies an agent output
ParseStatusFromOutput(output) ==
    /\ lastOp = NoOp
    /\ lastOp' = Call("parseStatusFromOutput", "", output, Ok(parseStatusFromOutput(output)))
    /\ UNCHANGED <<fs, run, test, findings, dirs, shutdown, runner, child, fileOutput>>

\* extractFindings is non-empty when progress.txt has a patterns or learnings
\* section; appendToFindings then appends to the project-level findings.md and
\* to the PRD's findings.md.
extractAndSaveFindings(f, fnd, name) ==
    LET status == findPRDLocation(f, name) IN
    IF status = "null" \/ ~f[status][name].files.progress THEN [fs |-> f, findings |-> fnd]
    ELSE [fs |-> [f EXCEPT ![status][name].files.findings = @ + 1],
          findings |-> Append(fnd, name)]

\* generateVerification, or generateSimpleVerification when it fails, writes verification.md
generateVerification(f, name) ==
    LET status == findPRDLocation(f, name) IN
    IF status = "null" THEN f ELSE [f EXCEPT ![status][name].files.verification = TRUE]

AllId == StoryId("ALL", <<>>)
UnknownId == StoryId("unknown", <<>>)

\* markPRDCompleted, extractAndSaveFindings, movePRD to testing, the verification
\* checklist and the lastRun; a failing movePRD throws out of runOrchestration
MoveToTesting(f, fnd, name) ==
    LET f1 == markPRDCompleted(f, name).fs
        x == extractAndSaveFindings(f1, fnd, name)
        m == movePRD(x.fs, name, "testing")
    IN IF ~m.res.ok THEN [fs |-> x.fs, findings |-> x.findings, err |-> m.res.err]
       ELSE [fs |-> updateLastRun(generateVerification(m.fs, name), name,
                                  LastRun(AllId, "completed")).fs,
             findings |-> x.findings, err |-> ""]

AutoBlockQuestions == <<"auto-blocked">>
InferredBlockQuestions == <<"agent-blocked">>

Threshold == 3

\* the loop condition with the bound included: one pass too many
BudgetLeftInclusive(i) == i <= MaxIterations

\* for (let i = 0; i < maxIterations; i++)
BudgetLeft(i) == i < MaxIterations

\* the stuck check without the attempt being started: the stored count compared
StuckTooLongStored(story) == story.iterationCount > Threshold /\ story.status = "in_progress"

\* iterationCount > 3 && story.status === "in_progress", where iterationCount
\* is the number of the attempt about to start: the stored count plus one
StuckTooLong(story) == story.iterationCount + 1 > Threshold /\ story.status = "in_progress"

Returned(r, err) == [r EXCEPT !.pc = "returned", !.err = err]

CountFix(stories) == Len(SelectSeq(stories, LAMBDA s : s.id.pfx = "FIX"))

\* runOrchestration up to the iteration loop
StartOrchestration(name) ==
    /\ run.pc = "idle"
    /\ Len(findings) < MaxFindings
    /\ getPRD(fs, name).ok => getPRD(fs, name).val.metrics < MaxMetric
    /\ LET started == markPRDStarted(fs, name)
           blocked == hasBlockedStories(started.fs, name)
           r0 == [IdleRun EXCEPT !.prd = name,
                                  !.unmetAtStart = IF canStartPRD(fs, name).ok
                                                   THEN ~canStartPRD(fs, name).val.canStart
                                                   ELSE FALSE]
       IN /\ fs' = started.fs
          /\ run' = IF ~started.res.ok THEN Returned(r0, started.res.err)
                    ELSE IF Len(blocked.val) > 0 THEN Returned(r0, "")
                    ELSE [r0 EXCEPT !.pc = "loop"]
    /\ lastOp' = Did("runOrchestration", name, <<>>, Ok(NoPRD))
    /\ UNCHANGED <<test, findings, dirs, shutdown, runner, child, fileOutput>>

\* one pass of the loop body up to the agent call, or the exit of the loop
Iterate ==
    /\ run.pc = "loop"
    /\ LET name == run.prd
           story == getNextStory(fs, name).val
           iterationCount == story.iterationCount + 1
       IN IF ~BudgetLeft(run.i) \/ shutdown.isShuttingDown
          THEN /\ fs' = updateLastRun(fs, name,
                            LastRun(IF run.currentStory = NoStoryId THEN UnknownId
                                    ELSE run.currentStory, "user_interrupted")).fs
               /\ run' = Returned(run, "")
               /\ UNCHANGED findings
          ELSE IF story = NoStory
          THEN LET m == MoveToTesting(fs, findings, name) IN
               /\ fs' = m.fs
               /\ findings' = m.findings
               /\ run' = Returned(run, m.err)
          ELSE IF StuckTooLong(story)
          THEN /\ fs' = updateLastRun(
                            updateStoryStatus(fs, name, story.id, "blocked", {AutoBlockQuestions}).fs,
                            name, LastRun(story.id, "blocked")).fs
               /\ run' = Returned([run EXCEPT !.currentStory = story.id], "")
               /\ UNCHANGED findings
          ELSE LET f1 == updateStoryStatus(fs, name, story.id, "in_progress", {}).fs
                   prdForIterationUpdate == getPRD(f1, name).val
                   k == FindStory(prdForIterationUpdate.stories, story.id)
               IN /\ fs' = savePRD(f1, name, [prdForIterationUpdate EXCEPT
                                                  !.stories[k].iterationCount = iterationCount]).fs
                  /\ run' = [run EXCEPT !.currentStory = story.id, !.pc = "agent",
                                        !.agentCalls = @ + 1]
                  /\ UNCHANGED findings
    /\ UNCHANGED <<test, lastOp, dirs, shutdown, runner, child, fileOutput>>

\* The agent may edit prd.json while it runs: the status of one story.
NoEdit == [idx |-> 0, status |-> ""]

AgentEdits(stories) ==
    {NoEdit} \cup {[idx |-> k, status |-> st] : k \in 1..Len(stories), st \in {"completed", "blocked"}}

ApplyEdit(f, name, edit) ==
    IF edit.idx = 0 THEN f
    ELSE LET prd == getPRD(f, name).val IN
         WritePRD(f, name, [prd EXCEPT
             !.stories[edit.idx].status = edit.status,
             !.stories[edit.idx].questions = IF edit.status = "blocked" THEN <<"Q">> ELSE @])

Outputs ==
    {Output(c, h, b, j) : c \in BOOLEAN, h \in {{}, {1}, {1, 4}}, b \in {{}, {2}},
                          j \in {"none", "completed", "blocked"}}

\* the exit code of a process that a signal ended is null
NullCode == -1
ExitCodes == {0, 1, 2}

\* the agent process: whether spawn raised "error", or else the code of
\* "close" and the text the process wrote
Procs ==
    {[error |-> TRUE, code |-> NullCode, output |-> Output(FALSE, {}, {}, "none")]}
    \cup {[error |-> FALSE, code |-> code, output |-> Output(c, {}, {}, j)] :
             code \in ExitCodes \cup {NullCode}, c \in BOOLEAN,
             j \in {"none", "completed", "blocked"}}
    \cup {[error |-> FALSE, code |-> 0, output |-> Output(FALSE, h, b, j)] :
             h \in {{}, {1}, {1, 4}}, b \in {{}, {2}}, j \in {"none", "blocked"}}

\* runAgent rejecting for every exit code but zero
runAgentRejectsNonZero(proc) ==
    IF proc.error \/ proc.code # 0 THEN Err("spawn")
    ELSE Ok([output |-> proc.output, exitCode |-> proc.code])

\* resolve({ output, exitCode: code ?? 1 }) on "close", reject on "error"
runAgent(proc) ==
    IF proc.error THEN Err("spawn")
    ELSE Ok([output |-> proc.output,
             exitCode |-> IF proc.code = NullCode THEN 1 ELSE proc.code])

\* The tokens of the child's output: a word, a line feed, a stream-json
\* assistant event with one text block, a stream-json result event, and a
\* word on standard error.
LF == "\n"
AssistantEvent == "{type:assistant,text:x}"
ResultEvent == "{type:result,result:r}"
StdoutTokens == {"t", LF, AssistantEvent, ResultEvent}
StderrTokens == {"e"}

\* line.trim() is not empty: the line has a token (there is no blank token)
Trimmed(text) == SelectSeq(text, LAMBDA c : c # LF)

\* text.split("\n")
RECURSIVE Split(_)
Split(text) ==
    IF \A k \in 1..Len(text) : text[k] # LF THEN <<text>>
    ELSE LET k == CHOOSE j \in 1..Len(text) :
                     text[j] = LF /\ \A h \in 1..(j - 1) : text[h] # LF
         IN <<SubSeq(text, 1, k - 1)>> \o Split(SubSeq(text, k + 1, Len(text)))

\* handleStreamLine: the plain text after the line
handleStreamLine(line, plainText) ==
    IF line = <<AssistantEvent>> THEN plainText \o <<"x">>
    ELSE IF line = <<ResultEvent>>
    THEN IF Trimmed(plainText) = <<>> THEN <<"r">> ELSE plainText
    ELSE IF Trimmed(line) # <<>> THEN plainText \o line \o <<LF>>
    ELSE plainText

\* the complete lines of a chunk, in order
RECURSIVE HandleLines(_, _)
HandleLines(lines, plainText) ==
    IF lines = <<>> THEN plainText
    ELSE HandleLines(Tail(lines),
                     IF Trimmed(Head(lines)) # <<>>
                     THEN handleStreamLine(Head(lines), plainText) ELSE plainText)

\* proc.stdout.on("data")
onStdoutData(p, chunk) ==
    LET lines == Split(p.lineBuffer \o chunk) IN
    IF p.stream
    THEN [p EXCEPT !.stdout = @ \o chunk,
                   !.lineBuffer = lines[Len(lines)],
                   !.plainText = HandleLines(SubSeq(lines, 1, Len(lines) - 1), @),
                   !.events = @ + 1]
    ELSE [p EXCEPT !.stdout = @ \o chunk, !.events = @ + 1]

\* proc.stderr.on("data")
onStderrData(p, chunk) == [p EXCEPT !.stderr = @ \o chunk, !.events = @ + 1]

\* proc.on("close")
onClose(p, code) ==
    LET plainText == IF p.stream /\ Trimmed(p.lineBuffer) # <<>>
                     THEN handleStreamLine(p.lineBuffer, p.plainText)
                     ELSE p.plainText
    IN [p EXCEPT !.plainText = plainText,
                 !.output = IF p.stream /\ plainText # <<>> THEN plainText
                            ELSE p.stdout \o p.stderr,
                 !.exitCode = IF code = NullCode THEN 1 ELSE code,
                 !.pc = "closed"]

Chunks(tokens) == {<<a>> : a \in tokens} \cup {<<a, b>> : a \in tokens, b \in tokens}

\* the child writes to its standard output: both calls get the chunk
StdoutData(chunk) ==
    /\ \A stream \in BOOLEAN : child[stream].pc = "running" /\ child[stream].events < MaxData
    /\ child' = [stream \in BOOLEAN |-> onStdoutData(child[stream], chunk)]
    /\ UNCHANGED <<fs, run, test, lastOp, findings, dirs, shutdown, runner, fileOutput>>

StderrData(chunk) ==
    /\ \A stream \in BOOLEAN : child[stream].pc = "running" /\ child[stream].events < MaxData
    /\ child' = [stream \in BOOLEAN |-> onStderrData(child[stream], chunk)]
    /\ UNCHANGED <<fs, run, test, lastOp, findings, dirs, shutdown, runner, fileOutput>>

\* the child ends with the code
Close(code) ==
    /\ \A stream \in BOOLEAN : child[stream].pc = "running"
    /\ child' = [stream \in BOOLEAN |-> onClose(child[stream], code)]
    /\ UNCHANGED <<fs, run, test, lastOp, findings, dirs, shutdown, runner, fileOutput>>

\* the classification with the output heuristics asked first
VerdictHeuristicsFirst(stored, inferred) ==
    IF inferred = "completed" THEN "inferred_completed"
    ELSE IF inferred = "blocked" THEN "inferred_blocked"
    ELSE IF stored = "completed" THEN "store_completed"
    ELSE IF stored = "blocked" THEN "store_blocked"
    ELSE "none"

\* the if/else chain on the re-read story: its status in the store first, the
\* status inferred from the output only when that is neither completed nor blocked
Verdict(stored, inferred) ==
    IF stored = "completed" THEN "store_completed"
    ELSE IF stored = "blocked" THEN "store_blocked"
    ELSE IF inferred = "completed" THEN "inferred_completed"
    ELSE IF inferred = "blocked" THEN "inferred_blocked"
    ELSE "none"

\* the loop body from the metrics update to its end, given what the agent
\* changed in the store and what runAgent resolved with; exitCode is logged only
AfterAgent(f, fnd, r, edit, output, exitCode) ==
    LET name == r.prd
        storyId == r.currentStory
        f1 == updateMetrics(ApplyEdit(f, name, edit), name, 1).fs
        updatedPrd == getPRD(f1, name).val
        k == FindStory(updatedPrd.stories, storyId)
        updatedStory == updatedPrd.stories[k]
        inferredStatus == parseStatusFromOutput(output)
        verdict == Verdict(updatedStory.status, inferredStatus)
        next == [r EXCEPT !.pc = "loop", !.i = @ + 1]
    IN IF output.complete
       THEN IF isPRDComplete(f1, name).val
            THEN LET m == MoveToTesting(f1, fnd, name) IN
                 [fs |-> m.fs, findings |-> m.findings, run |-> Returned(r, m.err)]
            ELSE [fs |-> updateLastRun(f1, name, LastRun(storyId, "story_completed")).fs,
                  findings |-> fnd, run |-> Returned(r, "")]
       ELSE IF verdict = "store_completed"
       THEN LET f2 == IF updatedStory.iterationCount > 0
                      THEN savePRD(f1, name, [updatedPrd EXCEPT !.stories[k].iterationCount = 0]).fs
                      ELSE f1
            IN [fs |-> updateLastRun(f2, name, LastRun(storyId, "story_completed")).fs,
                findings |-> fnd, run |-> next]
       ELSE IF verdict = "store_blocked"
       THEN [fs |-> updateLastRun(f1, name, LastRun(storyId, "blocked")).fs,
             findings |-> fnd, run |-> Returned(r, "")]
       ELSE IF verdict = "inferred_completed"
       THEN [fs |-> updateStoryStatus(f1, name, storyId, "completed", {}).fs,
             findings |-> fnd, run |-> next]
       ELSE IF verdict = "inferred_blocked"
       THEN [fs |-> updateStoryStatus(f1, name, storyId, "blocked", {InferredBlockQuestions}).fs,
             findings |-> fnd, run |-> Returned(r, "")]
       ELSE [fs |-> f1, findings |-> fnd, run |-> next]

\* the agent ran and exited normally; the rest of the pass
AgentReturns(edit, output) ==
    /\ run.pc = "agent"
    /\ edit \in AgentEdits(getPRD(fs, run.prd).val.stories)
    /\ LET x == AfterAgent(fs, findings, run, edit, output, 0) IN
        /\ fs' = x.fs
        /\ findings' = x.findings
        /\ run' = x.run
    /\ UNCHANGED <<test, lastOp, dirs, shutdown, runner, child, fileOutput>>

\* the agent process ends in any way: runAgent resolves and the pass goes on,
\* or it rejects and the rejection leaves runOrchestration
AgentExits(edit, proc) ==
    /\ run.pc = "agent"
    /\ edit \in AgentEdits(getPRD(fs, run.prd).val.stories)
    /\ LET res == runAgent(proc)
           x == AfterAgent(fs, findings, run, edit, res.val.output, res.val.exitCode)
       IN /\ lastOp' = Call("runAgent", run.prd, proc, res)
          /\ IF res.ok
             THEN /\ fs' = x.fs
                  /\ findings' = x.findings
                  /\ run' = x.run
             ELSE /\ run' = Returned(run, res.err)
                  /\ UNCHANGED <<fs, findings, child, fileOutput>>
    /\ UNCHANGED <<test, dirs, shutdown, runner, child, fileOutput>>

\* handleShutdown without the isShuttingDown check
handleShutdownNoFlag(sd, story) ==
    LET s1 == [sd EXCEPT !.isShuttingDown = TRUE] IN
    IF story # NoStoryId THEN [s1 EXCEPT !.flushing = @ + 1, !.story = story]
    ELSE [s1 EXCEPT !.exits = @ + 1]

\* handleShutdown up to its await: returns at once when a shutdown is under
\* way; else sets the flag and calls updateLastRun when there is a current
\* story, or goes straight to process.exit when there is none
handleShutdown(sd, story) ==
    IF sd.isShuttingDown THEN sd
    ELSE LET s1 == [sd EXCEPT !.isShuttingDown = TRUE] IN
         IF story # NoStoryId THEN [s1 EXCEPT !.flushing = @ + 1, !.story = story]
         ELSE [s1 EXCEPT !.exits = @ + 1]

\* the process is gone: nothing of it runs any more
Exited(r) == [r EXCEPT !.pc = "exited"]

\* SIGINT or SIGTERM arrives at a process that has registered handleShutdown
Signal ==
    /\ run.pc \notin {"idle", "exited"}
    /\ shutdown.signals < MaxSignals
    /\ LET sd == handleShutdown([shutdown EXCEPT !.signals = @ + 1], run.currentStory) IN
        /\ shutdown' = sd
        /\ run' = IF sd.exits > shutdown.exits THEN Exited(run) ELSE run
    /\ UNCHANGED <<fs, test, lastOp, findings, dirs, runner, child, fileOutput>>

\* the updateLastRun a call of handleShutdown awaits writes prd.json
FlushWrites ==
    /\ run.pc # "exited"
    /\ shutdown.flushing > 0
    /\ fs' = updateLastRun(fs, run.prd, LastRun(shutdown.story, "user_interrupted")).fs
    /\ shutdown' = [shutdown EXCEPT !.flushing = @ - 1, !.exiting = @ + 1, !.flushes = @ + 1]
    /\ UNCHANGED <<run, test, lastOp, findings, dirs, runner, child, fileOutput>>

\* process.exit(0) after the flush
ProcessExits ==
    /\ run.pc # "exited"
    /\ shutdown.exiting > 0
    /\ shutdown' = [shutdown EXCEPT !.flushing = 0, !.exiting = 0, !.exits = @ + 1]
    /\ run' = Exited(run)
    /\ UNCHANGED <<fs, test, lastOp, findings, dirs, runner, child, fileOutput>>

\* The same flush and the start of a pass, one await at a time: every getPRD
\* resolves with prd.json as it is at that moment, every atomicWrite replaces it.

\* updatePRD of the flush: existingPRD = await getPRD(...)
FlushReads ==
    /\ run.pc # "exited"
    /\ shutdown.flushing > 0 /\ shutdown.held = NoPRD
    /\ getPRD(fs, run.prd).ok
    /\ shutdown' = [shutdown EXCEPT !.held = getPRD(fs, run.prd).val]
    /\ UNCHANGED <<fs, run, test, lastOp, findings, dirs, runner, child, fileOutput>>

\* updatePRD of the flush: atomicWrite of {...existingPRD, lastRun}
FlushWritesHeld ==
    /\ run.pc # "exited"
    /\ shutdown.flushing > 0 /\ shutdown.held # NoPRD
    /\ fs' = WritePRD(fs, run.prd,
                      MergePRD(shutdown.held,
                               [lastRun |-> LastRun(shutdown.story, "user_interrupted")]))
    /\ shutdown' = [shutdown EXCEPT !.flushing = @ - 1, !.exiting = @ + 1, !.flushes = @ + 1,
                                    !.held = NoPRD]
    /\ UNCHANGED <<run, test, lastOp, findings, dirs, runner, child, fileOutput>>

\* the branch of the pass that hands the story to the agent
HandsStory(r, f) ==
    /\ BudgetLeft(r.i) /\ ~shutdown.isShuttingDown
    /\ getNextStory(f, r.prd).val # NoStory
    /\ ~StuckTooLong(getNextStory(f, r.prd).val)

\* the pass up to the stuck check: currentStory = story; buf holds what the
\* pass has read: the story, then the PRDs of the reads that follow
PassSelects ==
    /\ run.pc = "loop" /\ HandsStory(run, fs)
    /\ run' = [run EXCEPT !.currentStory = getNextStory(fs, run.prd).val.id, !.pc = "mark",
                          !.buf = <<getNextStory(fs, run.prd).val>>]
    /\ UNCHANGED <<fs, test, lastOp, findings, dirs, shutdown, runner, child, fileOutput>>

\* any other branch of the pass
PassEnds ==
    /\ run.pc = "loop" /\ ~HandsStory(run, fs)
    /\ Iterate

\* updateStoryStatus(prdName, story.id, "in_progress"): prd = await getPRD(...)
StatusReads ==
    /\ run.pc = "mark"
    /\ run' = [run EXCEPT !.pc = "mark_update", !.buf = Append(@, getPRD(fs, run.prd).val)]
    /\ UNCHANGED <<fs, test, lastOp, findings, dirs, shutdown, runner, child, fileOutput>>

\* its updatePRD: existingPRD = await getPRD(...)
StatusUpdateReads ==
    /\ run.pc = "mark_update"
    /\ run' = [run EXCEPT !.pc = "mark_write", !.buf = Append(@, getPRD(fs, run.prd).val)]
    /\ UNCHANGED <<fs, test, lastOp, findings, dirs, shutdown, runner, child, fileOutput>>

\* its updatePRD: atomicWrite of {...existingPRD, stories: prd.stories}
StatusWrites ==
    /\ run.pc = "mark_write"
    /\ LET prd == run.buf[2]
           existingPRD == run.buf[3]
           k == FindStory(prd.stories, run.currentStory)
           stories == [prd.stories EXCEPT ![k].status = "in_progress"]
       IN fs' = WritePRD(fs, run.prd, MergePRD(existingPRD, [stories |-> stories]))
    /\ run' = [run EXCEPT !.pc = "count", !.buf = <<@[1]>>]
    /\ UNCHANGED <<test, lastOp, findings, dirs, shutdown, runner, child, fileOutput>>

\* prdForIterationUpdate = await getPRD(prdName)
CountReads ==
    /\ run.pc = "count"
    /\ run' = [run EXCEPT !.pc = "count_write", !.buf = Append(@, getPRD(fs, run.prd).val)]
    /\ UNCHANGED <<fs, test, lastOp, findings, dirs, shutdown, runner, child, fileOutput>>

\* storyToUpdate.iterationCount = iterationCount; savePRD; the agent is started
CountWrites ==
    /\ run.pc = "count_write"
    /\ LET story == run.buf[1]
           prdForIterationUpdate == run.buf[2]
           k == FindStory(prdForIterationUpdate.stories, story.id)
       IN fs' = savePRD(fs, run.prd,
                        [prdForIterationUpdate EXCEPT
                            !.stories[k].iterationCount = story.iterationCount + 1]).fs
    /\ run' = [run EXCEPT !.pc = "agent", !.buf = <<>>, !.agentCalls = @ + 1]
    /\ UNCHANGED <<test, lastOp, findings, dirs, shutdown, runner, child, fileOutput>>

\* the process that ran runOrchestration ends
RunExit ==
    /\ run.pc = "returned"
    /\ run' = IdleRun
    /\ UNCHANGED <<fs, test, lastOp, findings, dirs, shutdown, runner, child, fileOutput>>

----------------------------------------------------------------------------
(* testing.ts *)

\* detectTestResult taking an output without a marker for a failure
detectTestResultDefaultFailed(output) ==
    IF output.verified THEN "verified" ELSE "failed"

\* detectTestResult asking for the PRD_FAILED marker first
detectTestResultFailedFirst(output) ==
    IF output.failed THEN "failed"
    ELSE IF output.verified THEN "verified"
    ELSE "null"

detectTestResult(output) ==
    IF output.verified THEN "verified"
    ELSE IF output.failed THEN "failed"
    ELSE "null"

\* A line of the <issues> block, trimmed: a leading dash or not, and the text after it.
IssueLine(dash, text) == [dash |-> dash, text |-> text]

\* issues is {} without an <issues> block, else {the lines of the block}
extractIssues(output) ==
    IF output.issues = {} THEN <<>>
    ELSE LET lines == CHOOSE l \in output.issues : TRUE
             dashed == SelectSeq(lines, LAMBDA line : line.dash)
             texts == [k \in 1..Len(dashed) |-> dashed[k].text]
         IN SelectSeq(texts, LAMBDA t : t # "")

MaxHealthFixAttempts == 3

Tested(t, result, err) ==
    [t EXCEPT !.pc = "returned", !.result = result, !.err = err,
              !.health = "none", !.fix = "none"]

\* a focused retest after any saved report
hasPreviousFailuresAnyReport(report) == report # "none"

\* getPreviousFailures gives a non-empty list: report.md exists and lists an
\* unchecked item or a bulleted issue
hasPreviousFailures(report) == report = "failing"

\* runTesting up to the health check loop
StartTesting(name) ==
    /\ test.pc = "idle"
    /\ Len(findings) < MaxFindings
    /\ getPRD(fs, name).ok => CountFix(getPRD(fs, name).val.stories) < MaxFix
    /\ LET status == findPRDLocation(fs, name)
           f1 == IF fs[status][name].files.verification THEN fs ELSE generateVerification(fs, name)
           isFocusedRetest == hasPreviousFailures(f1[status][name].files.report)
           f2 == IF isFocusedRetest THEN f1 ELSE [f1 EXCEPT ![status][name].files.report = "none"]
           t0 == [IdleTest EXCEPT !.prd = name, !.status = status]
       IN IF status = "null"
          THEN /\ test' = Tested(t0, "", "PRD not found")
               /\ UNCHANGED fs
          ELSE /\ fs' = f2
               /\ test' = [t0 EXCEPT !.pc = "health", !.attempt = 1, !.focused = isFocusedRetest]
    /\ lastOp' = Did("runTesting", name, <<>>, Ok(NoPRD))
    /\ UNCHANGED <<run, findings, dirs, shutdown, runner, child, fileOutput>>

\* the scripts of one cycle, in the order of the loop body
Lifecycle == <<"teardown", "setup", "start", "health_check">>

\* the loop going on after a passed health check
HealthLoopBreaksAtCapOnly(passed, attempt) == attempt >= MaxHealthFixAttempts

\* the two breaks after waitForHealthCheck
HealthLoopBreaks(passed, attempt) == passed \/ attempt >= MaxHealthFixAttempts

\* teardown, setup, start and the health check poll of one attempt
HealthCheck(passed) ==
    /\ test.pc = "health"
    /\ LET t1 == [test EXCEPT !.env = "up", !.scripts = Lifecycle, !.fix = "none",
                              !.health = IF passed THEN "passed" ELSE "failed"]
       IN test' = IF HealthLoopBreaks(passed, test.attempt)
                  THEN [t1 EXCEPT !.pc = "qa", !.qaCalls = @ + 1]
                  ELSE [t1 EXCEPT !.pc = "fix", !.fixCalls = @ + 1]
    /\ UNCHANGED <<fs, run, lastOp, findings, dirs, shutdown, runner, child, fileOutput>>

\* the fix agent returns
FixReturns(fixResult) ==
    /\ test.pc = "fix"
    /\ test' = IF fixResult = "fixed"
               THEN [test EXCEPT !.pc = "health", !.attempt = @ + 1, !.fix = fixResult]
               ELSE [test EXCEPT !.pc = "qa", !.qaCalls = @ + 1, !.fix = fixResult]
    /\ UNCHANGED <<fs, run, lastOp, findings, dirs, shutdown, runner, child, fileOutput>>

RECURSIVE SeqsOfLen(_, _)
SeqsOfLen(S, n) ==
    IF n = 0 THEN {<<>>} ELSE {Append(l, x) : l \in SeqsOfLen(S, n - 1), x \in S}

\* <issues> blocks: up to MaxIssues bulleted issues, possibly after a line
\* without a dash and possibly before a dash without text
IssueBlocks ==
    {head \o l \o tail : head \in {<<>>, <<IssueLine(FALSE, "note")>>},
                         l \in UNION {SeqsOfLen({IssueLine(TRUE, "i1")}, n) : n \in 0..MaxIssues},
                         tail \in {<<>>, <<IssueLine(TRUE, "")>>}}

QAOutputs ==
    {QAOutput(v, fl, u, {}) : v \in BOOLEAN, fl \in BOOLEAN, u \in BOOLEAN}
    \cup {QAOutput(v, TRUE, FALSE, {l}) : v \in BOOLEAN, l \in IssueBlocks}

\* the verified branch with the move made before the findings are extracted
OnVerifiedMoveFirst(f, fnd, name) ==
    LET m == movePRD(f, name, "completed")
        x == extractAndSaveFindings(m.fs, fnd, name)
    IN IF m.res.ok THEN [fs |-> x.fs, findings |-> x.findings, res |-> m.res]
       ELSE [fs |-> f, findings |-> fnd, res |-> m.res]

\* the verified branch: extractAndSaveFindings, then movePRD to completed; a
\* throwing movePRD leaves what was appended before it
OnVerified(f, fnd, name) ==
    LET x == extractAndSaveFindings(f, fnd, name)
        m == movePRD(x.fs, name, "completed")
    IN [fs |-> m.fs, findings |-> x.findings, res |-> m.res]

\* the runTeardown helper
runTeardown(t) == [t EXCEPT !.env = "down"]

\* the QA agent returns; runTesting from the report to its return
QAReturns(output) ==
    /\ test.pc = "qa"
    /\ LET name == test.prd
           testResult == detectTestResult(output)
           issues == extractIssues(output)
           status == findPRDLocation(fs, name)
           f1 == [fs EXCEPT ![status][name].files.report =
                      IF output.unchecked \/ Len(issues) > 0 THEN "failing" ELSE "clean"]
           t1 == [test EXCEPT !.output = output]
       IN IF testResult = "verified"
          THEN LET v == OnVerified(f1, findings, name)
               IN /\ fs' = v.fs
                  /\ findings' = v.findings
                  /\ test' = IF v.res.ok THEN Tested(runTeardown(t1), "verified", "")
                             ELSE Tested(t1, "", v.res.err)
          ELSE IF testResult = "failed"
          THEN LET m == movePRD(addFixStory(f1, name, issues).fs, name, "in_progress") IN
               /\ fs' = m.fs
               /\ test' = IF m.res.ok THEN Tested(runTeardown(t1), "failed", "")
                          ELSE Tested(t1, "", m.res.err)
               /\ UNCHANGED findings
          ELSE /\ fs' = f1
               /\ test' = Tested(runTeardown(t1), "unknown", "")
               /\ UNCHANGED findings
    /\ UNCHANGED <<run, lastOp, dirs, shutdown, runner, child, fileOutput>>

\* the process that ran runTesting ends
TestExit ==
    /\ test.pc = "returned"
    /\ test' = IdleTest
    /\ UNCHANGED <<fs, run, lastOp, findings, dirs, shutdown, runner, child, fileOutput>>

----------------------------------------------------------------------------
(* Runner state: runner.json *)

\* saveRunnerState: the file is replaced, or the error is returned
saveRunnerState(rn, runs) ==
    IF rn.writable THEN [runner |-> [rn EXCEPT !.runs = runs], res |-> Ok(NoPRD)]
    ELSE [runner |-> rn, res |-> Err("STATE_WRITE_FAILED")]

upsertRun(rn, name, status) ==
    IF ~rn.readable THEN [runner |-> rn, res |-> Err("STATE_READ_FAILED")]
    ELSE saveRunnerState(rn, [rn.runs EXCEPT ![name] = status])

updateRunStatus(rn, name, status) ==
    IF ~rn.readable THEN [runner |-> rn, res |-> Err("STATE_READ_FAILED")]
    ELSE IF rn.runs[name] = "none" THEN [runner |-> rn, res |-> Err("NOT_RUNNING")]
    ELSE saveRunnerState(rn, [rn.runs EXCEPT ![name] = status])

removeRun(rn, name) ==
    IF ~rn.readable THEN [runner |-> rn, res |-> Err("STATE_READ_FAILED")]
    ELSE saveRunnerState(rn, [rn.runs EXCEPT ![name] = "none"])

\* reconcile marking a run stale whenever its pane is not known to be alive
reconcileStaleUnlessAlive(rn) ==
    IF ~rn.readable THEN [runner |-> rn, res |-> Err("STATE_READ_FAILED")]
    ELSE LET marked == [name \in Names |->
                          IF rn.runs[name] = "running" /\ rn.panes[name] # "alive"
                          THEN "stale" ELSE rn.runs[name]]
         IN [runner |-> IF marked # rn.runs THEN saveRunnerState(rn, marked).runner ELSE rn,
             res |-> [ok |-> TRUE, err |-> "", val |-> marked]]

\* reconcile: a running run whose isPaneAlive answers ok and false becomes
\* stale; runner.json is saved when a run was marked, the result of the save
\* is not looked at, and the reconciled list is returned
reconcile(rn) ==
    IF ~rn.readable THEN [runner |-> rn, res |-> Err("STATE_READ_FAILED")]
    ELSE LET marked == [name \in Names |->
                          IF rn.runs[name] = "running" /\ rn.panes[name] = "dead"
                          THEN "stale" ELSE rn.runs[name]]
         IN [runner |-> IF marked # rn.runs THEN saveRunnerState(rn, marked).runner ELSE rn,
             res |-> [ok |-> TRUE, err |-> "", val |-> marked]]

\* arg: the runs of runner.json when reconcile loaded it
Reconcile ==
    /\ LET r == reconcile(runner) IN
        /\ runner' = r.runner
        /\ lastOp' = Call("reconcile", "", runner.runs, r.res)
    /\ UNCHANGED <<fs, run, test, findings, dirs, shutdown, child, fileOutput>>

UpsertRun(name) ==
    /\ LET r == upsertRun(runner, name, "running") IN
        /\ runner' = IF r.res.ok THEN [r.runner EXCEPT !.panes[name] = "alive"] ELSE r.runner
        /\ lastOp' = Did("upsertRun", name, "running", r.res)
    /\ UNCHANGED <<fs, run, test, findings, dirs, shutdown, child, fileOutput>>

UpdateRunStatus(name, status) ==
    /\ LET r == updateRunStatus(runner, name, status) IN
        /\ runner' = r.runner
        /\ lastOp' = Did("updateRunStatus", name, status, r.res)
    /\ UNCHANGED <<fs, run, test, findings, dirs, shutdown, child, fileOutput>>

RemoveRun(name) ==
    /\ LET r == removeRun(runner, name) IN
        /\ runner' = r.runner
        /\ lastOp' = Did("removeRun", name, <<>>, r.res)
    /\ UNCHANGED <<fs, run, test, findings, dirs, shutdown, child, fileOutput>>

\* the session backend: a pane ends, or the check of one starts to fail
PaneChanges(name, to) ==
    /\ runner.runs[name] # "none"
    /\ runner.panes[name] = "alive" /\ to \in {"dead", "error"}
    /\ runner' = [runner EXCEPT !.panes[name] = to]
    /\ UNCHANGED <<fs, run, test, lastOp, findings, dirs, shutdown, child, fileOutput>>

\* The same three calls, one await at a time: tmp is what `${statePath}.tmp`
\* holds (<<>> when there is no such file), calls the call in progress for
\* each PRD.

\* what the call does to the state it loaded
Changed(runs, name, op, status) ==
    [runs EXCEPT ![name] = IF op = "removeRun" THEN "none" ELSE status]

\* stateResult = await loadRunnerState(cwd), and the change made in memory
CallLoads(name, op, status) ==
    /\ runner.calls[name].pc = "idle"
    /\ op = "upsertRun" => status = "running"
    /\ LET call == [NoCall EXCEPT !.op = op, !.status = status] IN
       runner' = [runner EXCEPT !.calls[name] =
                     IF op = "updateRunStatus" /\ runner.runs[name] = "none"
                     THEN [call EXCEPT !.pc = "done", !.res = "NOT_RUNNING"]
                     ELSE [call EXCEPT !.pc = "loaded",
                                       !.state = Changed(runner.runs, name, op, status)]]
    /\ UNCHANGED <<fs, run, test, lastOp, findings, dirs, shutdown, child, fileOutput>>

\* saveRunnerState: await writeFile(tmpPath, ...)
CallWritesTmp(name) ==
    /\ runner.calls[name].pc = "loaded"
    /\ runner' = [runner EXCEPT !.tmp = <<runner.calls[name].state>>,
                                !.calls[name].pc = "written"]
    /\ UNCHANGED <<fs, run, test, lastOp, findings, dirs, shutdown, child, fileOutput>>

\* saveRunnerState: await rename(tmpPath, statePath); it throws when the
\* temporary file is gone
CallRenames(name) ==
    /\ runner.calls[name].pc = "written"
    /\ runner' = IF runner.tmp = <<>>
                 THEN [runner EXCEPT !.calls[name].pc = "done",
                                     !.calls[name].res = "STATE_WRITE_FAILED"]
                 ELSE [runner EXCEPT !.runs = runner.tmp[1], !.tmp = <<>>,
                                     !.calls[name].pc = "done",
                                     !.calls[name].res = "ok"]
    /\ UNCHANGED <<fs, run, test, lastOp, findings, dirs, shutdown, child, fileOutput>>

----------------------------------------------------------------------------
(* The logger: FileOutput *)

\* scheduleFlush up to the await of the timer
scheduleFlush(o) ==
    IF o.flushPromise THEN o ELSE [o EXCEPT !.flushPromise = TRUE, !.pc = "delay"]

\* JSON.stringify of each entry, joined by line feeds, with a line feed at the end
Lines(entries) == [k \in 1..Len(entries) |-> [json |-> entries[k]]]

\* write(entry): the entries are numbered in the order of the calls
Write ==
    /\ fileOutput.written < MaxEntries
    /\ fileOutput' = scheduleFlush([fileOutput EXCEPT !.buffer = Append(@, fileOutput.written + 1),
                                                      !.written = @ + 1])
    /\ UNCHANGED <<fs, run, test, lastOp, findings, dirs, shutdown, runner, child>>

\* the timer of the flush fires: an empty buffer ends the flush, else the
\* buffer is taken and mkdir or appendFile is awaited
TimerFires ==
    /\ fileOutput.pc = "delay"
    /\ fileOutput' =
          IF Len(fileOutput.buffer) = 0
          THEN [fileOutput EXCEPT !.flushPromise = FALSE, !.pc = "none"]
          ELSE [fileOutput EXCEPT !.entries = fileOutput.buffer, !.buffer = <<>>,
                                  !.pc = IF fileOutput.ensuredDir THEN "append" ELSE "mkdir"]
    /\ UNCHANGED <<fs, run, test, lastOp, findings, dirs, shutdown, runner, child>>

\* the flush as it ends, after the append or in the catch block
FlushEnds(o) == [o EXCEPT !.flushPromise = FALSE, !.pc = "none", !.entries = <<>>]

Range(seq) == {seq[k] : k \in 1..Len(seq)}

\* mkdir resolves or rejects
MkdirSettles(resolved) ==
    /\ fileOutput.pc = "mkdir"
    /\ fileOutput' =
          IF resolved THEN [fileOutput EXCEPT !.ensuredDir = TRUE, !.pc = "append"]
          ELSE FlushEnds([fileOutput EXCEPT !.failed = @ \cup Range(fileOutput.entries)])
    /\ UNCHANGED <<fs, run, test, lastOp, findings, dirs, shutdown, runner, child>>

\* appendFile resolves or rejects
AppendSettles(resolved) ==
    /\ fileOutput.pc = "append"
    /\ fileOutput' =
          IF resolved
          THEN FlushEnds([fileOutput EXCEPT !.file = @ \o Lines(fileOutput.entries)])
          ELSE FlushEnds([fileOutput EXCEPT !.failed = @ \cup Range(fileOutput.entries)])
    /\ UNCHANGED <<fs, run, test, lastOp, findings, dirs, shutdown, runner, child>>

----------------------------------------------------------------------------
(* Two executions at once: the steps of appendToFindings *)

\* extractFindings returns text when progress.txt has patterns or learnings
Extracted(f, name) ==
    LET status == findPRDLocation(f, name) IN status # "null" /\ f[status][name].files.progress

\* appendToFindings, the PRD's own findings.md: existing + content
AppendToPRDFindings(f, name) ==
    LET status == findPRDLocation(f, name) IN [f EXCEPT ![status][name].files.findings = @ + 1]

\* runOrchestration finds no story left: markPRDCompleted, then
\* extractAndSaveFindings up to the read of the project-level findings.md
OrchReadsFindings ==
    /\ run.pc = "loop" /\ BudgetLeft(run.i)
    /\ getNextStory(fs, run.prd).val = NoStory
    /\ fs' = markPRDCompleted(fs, run.prd).fs
    /\ run' = IF Extracted(fs, run.prd) THEN [run EXCEPT !.pc = "append", !.buf = findings]
              ELSE [run EXCEPT !.pc = "move"]
    /\ UNCHANGED <<test, lastOp, findings, dirs, shutdown, runner, child, fileOutput>>

\* atomicWrite(globalPath, globalExisting + content), then the PRD's own file
OrchAppendsFindings ==
    /\ run.pc = "append"
    /\ findings' = Append(run.buf, run.prd)
    /\ fs' = AppendToPRDFindings(fs, run.prd)
    /\ run' = [run EXCEPT !.pc = "move"]
    /\ UNCHANGED <<test, lastOp, dirs, shutdown, runner, child, fileOutput>>

\* movePRD to testing, the verification checklist, the lastRun and the return
OrchMovesToTesting ==
    /\ run.pc = "move"
    /\ LET m == movePRD(fs, run.prd, "testing") IN
        /\ fs' = IF ~m.res.ok THEN fs
                 ELSE updateLastRun(generateVerification(m.fs, run.prd), run.prd,
                                    LastRun(AllId, "completed")).fs
        /\ run' = Returned(run, m.res.err)
    /\ UNCHANGED <<test, lastOp, findings, dirs, shutdown, runner, child, fileOutput>>

\* the QA agent returns PRD_VERIFIED: the report is saved, then
\* extractAndSaveFindings up to the read of the project-level findings.md
TestReadsFindings(output) ==
    /\ test.pc = "qa"
    /\ detectTestResult(output) = "verified"
    /\ LET name == test.prd
           status == findPRDLocation(fs, name)
           issues == extractIssues(output)
       IN fs' = [fs EXCEPT ![status][name].files.report =
                     IF output.unchecked \/ Len(issues) > 0 THEN "failing" ELSE "clean"]
    /\ test' = IF Extracted(fs, test.prd)
               THEN [test EXCEPT !.output = output, !.pc = "append", !.buf = findings]
               ELSE [test EXCEPT !.output = output, !.pc = "move"]
    /\ UNCHANGED <<run, lastOp, findings, dirs, shutdown, runner, child, fileOutput>>

TestAppendsFindings ==
    /\ test.pc = "append"
    /\ findings' = Append(test.buf, test.prd)
    /\ fs' = AppendToPRDFindings(fs, test.prd)
    /\ test' = [test EXCEPT !.pc = "move"]
    /\ UNCHANGED <<run, lastOp, dirs, shutdown, runner, child, fileOutput>>

\* movePRD to completed, the teardown and the return
TestMovesToCompleted ==
    /\ test.pc = "move"
    /\ LET m == movePRD(fs, test.prd, "completed") IN
        /\ fs' = m.fs
        /\ test' = IF m.res.ok THEN Tested(runTeardown(test), "verified", "")
                   ELSE Tested(test, "", m.res.err)
    /\ UNCHANGED <<run, lastOp, findings, dirs, shutdown, runner, child, fileOutput>>

----------------------------------------------------------------------------
(* Initial states *)

\* The sync hook: any skeleton, a file possibly in the place of a directory;
\* nothing exists below a path that is not a directory.
Skeletons ==
    {d \in [Paths -> {"none", "dir", "file"}] :
        \A q \in Paths : d[q] # "none" => \A a \in Prefixes(q) \ {q} : d[a] = "dir"}

InitSync ==
    /\ run = IdleRun
    /\ test = IdleTest
    /\ fileOutput = NoFileOutput
    /\ lastOp = NoOp
    /\ findings = <<>>
    /\ fs = EmptyFS
    /\ dirs \in Skeletons
    /\ shutdown = NoShutdown
    /\ runner = NoRunner
    /\ child = NoChild

NextSync == Sync

SpecSync == InitSync /\ [][NextSync]_vars

Questions == {[i \in 1..k |-> "Q"] : k \in 0..MaxQuestions}

\* the stories a PRD can hold at position n of its stories array
StoryAt(n, priorities) ==
    {Story(US(n), st, p, <<>>) : st \in {"pending", "in_progress", "completed"}, p \in priorities}
    \cup {Story(US(n), "blocked", p, q) : p \in priorities, q \in Questions}

RECURSIVE StoryListsOfLen(_, _)
StoryListsOfLen(n, priorities) ==
    IF n = 0 THEN {<<>>}
    ELSE {Append(l, s) : l \in StoryListsOfLen(n - 1, priorities), s \in StoryAt(n, priorities)}

StoryLists(lo, hi, priorities) == UNION {StoryListsOfLen(n, priorities) : n \in lo..hi}

Place(f, name, status, dir) == [f EXCEPT ![status][name] = dir]

\* a first story in any status, then stories that are pending or blocked
RECURSIVE StoreStoriesOfLen(_)
StoreStoriesOfLen(n) ==
    IF n = 1 THEN {<<s>> : s \in StoryAt(1, {1})}
    ELSE {Append(l, s) : l \in StoreStoriesOfLen(n - 1),
                         s \in {Story(US(n), "pending", 1, <<>>), Story(US(n), "blocked", 1, <<"Q">>)}}

StoreStories == UNION {StoreStoriesOfLen(n) : n \in 1..MaxStories}

\* Store calls on one PRD: "a" in any folder (or nowhere), with prd.json or with
\* spec.md only, and possibly a leftover directory of its name in another folder.
InitStore ==
    /\ run = IdleRun
    /\ test = IdleTest
    /\ fileOutput = NoFileOutput
    /\ lastOp = NoOp
    /\ findings = <<>>
    /\ dirs = StateDirs
    /\ shutdown = NoShutdown
    /\ runner = NoRunner
    /\ child = NoChild
    /\ \E place \in Statuses \cup {"none"}, stray \in Statuses \cup {"none"},
          dir \in {SpecDir} \cup {PRDDir(NewPRD("a", l, <<>>), NoFiles) : l \in StoreStories} :
        /\ stray # place \/ stray = "none"
        /\ place = "none" => dir = SpecDir
        /\ LET f1 == IF place = "none" THEN EmptyFS ELSE Place(EmptyFS, "a", place, dir)
           IN fs = IF stray = "none" THEN f1 ELSE Place(f1, "a", stray, StrayDir)

NextStore ==
    \/ \E toStatus \in Statuses : MovePRD("a", toStatus)
    \/ \E updates \in Payloads : UpdatePRD("a", updates)
    \/ \E n \in 1..MaxStories, answers \in Answers : UnblockStory("a", US(n), answers)

SpecStore == InitStore /\ [][NextStore]_vars

\* The dependency gate: "a" and "b" each in any folder, depending on each other.
DepLists == {<<>>, <<"a">>, <<"b">>, <<"b", "a">>}

DepStories == StoryLists(0, MaxStories, {1})

InitDeps ==
    /\ run = IdleRun
    /\ test = IdleTest
    /\ fileOutput = NoFileOutput
    /\ lastOp = NoOp
    /\ findings = <<>>
    /\ dirs = StateDirs
    /\ shutdown = NoShutdown
    /\ runner = NoRunner
    /\ child = NoChild
    /\ \E placeA \in Statuses, depsA \in DepLists,
          placeB \in Statuses \cup {"none"}, depsB \in {<<>>, <<"a">>},
          dirB \in {SpecDir} \cup {PRDDir(NewPRD("b", l, <<>>), NoFiles) : l \in DepStories} :
        /\ placeB = "none" => dirB = SpecDir
        /\ LET prdA == NewPRD("a", <<Story(US(1), "pending", 1, <<>>)>>, depsA)
               f1 == Place(EmptyFS, "a", placeA, PRDDir(prdA, NoFiles))
               dB == IF dirB.kind = "prd" THEN [dirB EXCEPT !.prd.dependencies = depsB] ELSE dirB
           IN fs = IF placeB = "none" THEN f1 ELSE Place(f1, "b", placeB, dB)

NextDeps ==
    \/ \E name \in Names : CanStartPRD(name)
    \/ \E name \in Names, toStatus \in Statuses : MovePRD(name, toStatus)

SpecDeps == InitDeps /\ [][NextDeps]_vars

\* Story selection: the PRD "a" with every list of stories up to MaxSelect, each
\* in any status and of any priority.
RECURSIVE SelectStoriesOfLen(_)
SelectStoriesOfLen(n) ==
    IF n = 0 THEN {<<>>}
    ELSE {Append(l, Story(US(n), st, p, IF st = "blocked" THEN <<"Q">> ELSE <<>>)) :
              l \in SelectStoriesOfLen(n - 1), st \in StoryStatuses, p \in 1..MaxPriority}

InitSelect ==
    /\ run = IdleRun
    /\ test = IdleTest
    /\ fileOutput = NoFileOutput
    /\ lastOp = NoOp
    /\ findings = <<>>
    /\ dirs = StateDirs
    /\ shutdown = NoShutdown
    /\ runner = NoRunner
    /\ child = NoChild
    /\ \E l \in UNION {SelectStoriesOfLen(n) : n \in 0..MaxSelect} :
          fs = Place(EmptyFS, "a", "pending", PRDDir(NewPRD("a", l, <<>>), NoFiles))

NextSelect == GetNextStory("a")

SpecSelect == InitSelect /\ [][NextSelect]_vars

\* The development loop: "a" in pending or moved to in_progress by its caller,
\* possibly depending on "b", which is pending; "a" has one story, or two with
\* the first or the second to run first.
DevStories ==
    { <<Story(US(1), "pending", 1, <<>>)>>,
      <<Story(US(1), "pending", 1, <<>>), Story(US(2), "pending", 1, <<>>)>>,
      <<Story(US(1), "pending", 2, <<>>), Story(US(2), "pending", 1, <<>>)>> }

WithProgress == [NoFiles EXCEPT !.progress = TRUE]

PRDb == PRDDir(NewPRD("b", <<Story(US(1), "pending", 1, <<>>)>>, <<>>), NoFiles)

Init ==
    /\ run = IdleRun
    /\ test = IdleTest
    /\ fileOutput = NoFileOutput
    /\ lastOp = NoOp
    /\ findings = <<>>
    /\ dirs = StateDirs
    /\ shutdown = NoShutdown
    /\ runner = NoRunner
    /\ child = NoChild
    /\ \E la \in DevStories, depsA \in {<<>>, <<"b">>}, place \in {"pending", "in_progress"} :
          fs = Place(Place(EmptyFS, "a", place, PRDDir(NewPRD("a", la, depsA), WithProgress)),
                     "b", "pending", PRDb)

\* the PRD the engine is run on; "b" is only depended on
Engined == {"a"}

\* the stories the caller is asked to answer for: the blocked ones
BlockedIds(f, name) ==
    IF hasBlockedStories(f, name).ok
    THEN {hasBlockedStories(f, name).val[k].id : k \in 1..Len(hasBlockedStories(f, name).val)}
    ELSE {}

MaxLen == MaxStories + MaxFix

Next ==
    \/ \E name \in Engined : StartOrchestration(name)
    \/ Iterate
    \/ /\ run.pc = "agent"
       /\ \E edit \in AgentEdits(getPRD(fs, run.prd).val.stories), output \in Outputs :
             AgentReturns(edit, output)
    \/ RunExit
    \/ \E name \in Engined : \E storyId \in BlockedIds(fs, name), answers \in {<<>>, <<"A">>} :
          UnblockStory(name, storyId, answers)

Spec == Init /\ [][Next]_vars

\* The agent process of the development loop: every way it can end.
InitAgent ==
    /\ run = IdleRun
    /\ test = IdleTest
    /\ fileOutput = NoFileOutput
    /\ lastOp = NoOp
    /\ findings = <<>>
    /\ dirs = StateDirs
    /\ shutdown = NoShutdown
    /\ runner = NoRunner
    /\ child = NoChild
    /\ \E la \in DevStories :
          fs = Place(EmptyFS, "a", "pending", PRDDir(NewPRD("a", la, <<>>), WithProgress))

NextAgent ==
    \/ StartOrchestration("a")
    \/ Iterate
    \/ /\ run.pc = "agent"
       /\ \E edit \in AgentEdits(getPRD(fs, run.prd).val.stories), proc \in Procs :
             AgentExits(edit, proc)
    \/ RunExit

SpecAgent == InitAgent /\ [][NextAgent]_vars

----------------------------------------------------------------------------
\* The testing loop: "a" as runOrchestration leaves it or as a caller moved it,
\* with the fix stories of earlier passes, and possibly a leftover directory of
\* its name in a folder runTesting moves it to.
Done(id) == Story(id, "completed", 1, <<>>)

TestStories ==
    { <<Done(US(1))>>,
      <<Story(US(1), "in_progress", 1, <<>>)>>,
      <<Done(US(1)), Done(StoryId("FIX", <<0, 0, 1>>))>>,
      <<Done(US(1)), Done(StoryId("FIX", <<0, 0, 2>>)), Done(StoryId("FIX", <<0, 0, 1>>))>>,
      <<Done(US(1)), Done(StoryId("FIX", <<9>>))>>,
      <<Done(US(1)), Done(StoryId("FIX", <<>>))>>,
      <<Done(US(1)), Done(StoryId("FIX", <<9, 9, 9>>))>> }

InitTest ==
    /\ run = IdleRun
    /\ test = IdleTest
    /\ fileOutput = NoFileOutput
    /\ lastOp = NoOp
    /\ findings = <<>>
    /\ dirs = StateDirs
    /\ shutdown = NoShutdown
    /\ runner = NoRunner
    /\ child = NoChild
    /\ \E l \in TestStories, place \in Statuses, stray \in {"none", "in_progress", "completed"},
          verification \in BOOLEAN, report \in {"none", "clean", "failing"},
          progress \in BOOLEAN :
        /\ stray # place
        /\ LET f1 == Place(EmptyFS, "a", place,
                           PRDDir(NewPRD("a", l, <<>>),
                                  [verification |-> verification, report |-> report,
                                   findings |-> 0, progress |-> progress]))
           IN fs = IF stray = "none" THEN f1 ELSE Place(f1, "a", stray, StrayDir)

NextTest ==
    \/ \E name \in Engined : StartTesting(name)
    \/ \E passed \in BOOLEAN : HealthCheck(passed)
    \/ \E fixResult \in {"fixed", "not_fixable", "null"} : FixReturns(fixResult)
    \/ \E output \in QAOutputs : QAReturns(output)
    \/ TestExit

SpecTest == InitTest /\ [][NextTest]_vars

\* The life of one PRD: runOrchestration calls, unblockStory calls and runTesting
\* passes on "a", one after the other, from pending stories or from a story
\* that an earlier call auto-blocked; the agent edits nothing but the status of
\* the story it was given.
LifeStories ==
    { <<Story(US(1), "pending", 1, <<>>)>>,
      <<[Story(US(1), "blocked", 1, AutoBlockQuestions) EXCEPT !.iterationCount = Threshold]>>,
      <<Story(US(1), "pending", 2, <<>>)>>,
      <<Story(US(1), "pending", 1, <<>>), Story(US(2), "pending", 1, <<>>)>>,
      <<Story(US(1), "pending", 2, <<>>), Story(US(2), "pending", 1, <<>>)>> }

OwnEdits(stories, storyId) ==
    {edit \in AgentEdits(stories) : edit.idx \in {0, FindStory(stories, storyId)}}

LifeOutputs == {Output(c, {}, {}, "none") : c \in BOOLEAN}

LifeQAOutputs == {QAOutput(v, fl, FALSE, {}) : v \in BOOLEAN, fl \in BOOLEAN}

InitLife ==
    /\ run = IdleRun
    /\ test = IdleTest
    /\ fileOutput = NoFileOutput
    /\ lastOp = NoOp
    /\ findings = <<>>
    /\ dirs = StateDirs
    /\ shutdown = NoShutdown
    /\ runner = NoRunner
    /\ child = NoChild
    /\ \E l \in LifeStories :
          fs = Place(EmptyFS, "a", "pending",
                     PRDDir(NewPRD("a", l, <<>>), [WithProgress EXCEPT !.verification = TRUE]))

NextLife ==
    \/ Idle /\ StartOrchestration("a")
    \/ Iterate
    \/ /\ run.pc = "agent"
       /\ \E edit \in OwnEdits(getPRD(fs, run.prd).val.stories, run.currentStory),
             output \in LifeOutputs :
             AgentReturns(edit, output)
    \/ RunExit
    \/ \E storyId \in BlockedIds(fs, "a") : UnblockStory("a", storyId, <<"A">>)
    \/ Idle /\ StartTesting("a")
    \/ HealthCheck(TRUE)
    \/ \E output \in LifeQAOutputs : QAReturns(output)
    \/ TestExit

SpecLife == InitLife /\ [][NextLife]_vars

\* Runner state: any runner.json over the two PRD names, readable or not,
\* replaceable or not, and any state of the panes of its runs.
InitRunner ==
    /\ run = IdleRun
    /\ test = IdleTest
    /\ fileOutput = NoFileOutput
    /\ lastOp = NoOp
    /\ findings = <<>>
    /\ dirs = StateDirs
    /\ shutdown = NoShutdown
    /\ fs = EmptyFS
    /\ \E runs \in [Names -> RunStatuses \cup {"none"}], panes \in [Names -> {"alive", "dead", "error"}],
          readable \in BOOLEAN, writable \in BOOLEAN :
        /\ \A name \in Names : runs[name] = "none" => panes[name] = "alive"
        /\ runner = [NoRunner EXCEPT !.runs = runs, !.panes = panes,
                                     !.readable = readable, !.writable = writable]
        /\ child = NoChild

NextRunner ==
    \/ Reconcile
    \/ \E name \in Names : UpsertRun(name)
    \/ \E name \in Names, status \in RunStatuses : UpdateRunStatus(name, status)
    \/ \E name \in Names : RemoveRun(name)
    \/ \E name \in Names, to \in {"dead", "error"} : PaneChanges(name, to)

SpecRunner == InitRunner /\ [][NextRunner]_vars

\* The interrupt handler: one process runs runOrchestration on "a" while
\* signals arrive.
InitSignal ==
    /\ run = IdleRun
    /\ test = IdleTest
    /\ fileOutput = NoFileOutput
    /\ lastOp = NoOp
    /\ findings = <<>>
    /\ dirs = StateDirs
    /\ shutdown = NoShutdown
    /\ runner = NoRunner
    /\ child = NoChild
    /\ \E la \in DevStories :
          fs = Place(EmptyFS, "a", "pending", PRDDir(NewPRD("a", la, <<>>), WithProgress))

NextSignal ==
    \/ StartOrchestration("a")
    \/ Iterate
    \/ \E k \in 0..1, j \in {"none", "completed", "blocked"} :
          AgentReturns(IF k = 0 THEN NoEdit ELSE [idx |-> k, status |-> "completed"],
                       Output(FALSE, {}, {}, j))
    \/ Signal
    \/ FlushWrites
    \/ ProcessExits

SpecSignal == InitSignal /\ [][NextSignal]_vars

\* Run tracking by two executions: one call for "a" and one for "b" on any
\* runner.json, their awaits in any order.
RunOps == {"upsertRun", "updateRunStatus", "removeRun"}

InitTrack ==
    /\ run = IdleRun
    /\ test = IdleTest
    /\ fileOutput = NoFileOutput
    /\ lastOp = NoOp
    /\ findings = <<>>
    /\ dirs = StateDirs
    /\ shutdown = NoShutdown
    /\ fs = EmptyFS
    /\ child = NoChild
    /\ \E runs \in [Names -> RunStatuses \cup {"none"}] : runner = [NoRunner EXCEPT !.runs = runs]

NextTrack ==
    \/ \E name \in Names, op \in RunOps, status \in RunStatuses : CallLoads(name, op, status)
    \/ \E name \in Names : CallWritesTmp(name)
    \/ \E name \in Names : CallRenames(name)

SpecTrack == InitTrack /\ [][NextTrack]_vars

\* The logger: write calls at any moment of the flush.
InitLog ==
    /\ run = IdleRun
    /\ test = IdleTest
    /\ lastOp = NoOp
    /\ findings = <<>>
    /\ dirs = StateDirs
    /\ shutdown = NoShutdown
    /\ runner = NoRunner
    /\ child = NoChild
    /\ fs = EmptyFS
    /\ \E ensuredDir \in BOOLEAN : fileOutput = [NoFileOutput EXCEPT !.ensuredDir = ensuredDir]

NextLog ==
    \/ Write
    \/ TimerFires
    \/ \E resolved \in BOOLEAN : MkdirSettles(resolved)
    \/ \E resolved \in BOOLEAN : AppendSettles(resolved)

SpecLog == InitLog /\ [][NextLog]_vars

\* The interrupt handler and the pass, one await at a time.
InitFlush == InitSignal

NextFlush ==
    \/ StartOrchestration("a")
    \/ PassSelects
    \/ PassEnds
    \/ StatusReads
    \/ StatusUpdateReads
    \/ StatusWrites
    \/ CountReads
    \/ CountWrites
    \/ \E k \in 0..1, j \in {"none", "completed", "blocked"} :
          AgentReturns(IF k = 0 THEN NoEdit ELSE [idx |-> k, status |-> "completed"],
                       Output(FALSE, {}, {}, j))
    \/ Signal
    \/ FlushReads
    \/ FlushWritesHeld
    \/ ProcessExits

SpecFlush == InitFlush /\ [][NextFlush]_vars

\* The signal detector on its own: every set of matching completion and
\* blocked patterns, with every capture of the JSON pattern.
ParseOutputs ==
    {Output(FALSE, h, b, j) : h \in SUBSET (1..5), b \in SUBSET (1..4),
                              j \in JsonTexts \cup {"none"}}

InitParse ==
    /\ run = IdleRun
    /\ test = IdleTest
    /\ fileOutput = NoFileOutput
    /\ lastOp = NoOp
    /\ findings = <<>>
    /\ dirs = StateDirs
    /\ shutdown = NoShutdown
    /\ runner = NoRunner
    /\ child = NoChild
    /\ fs = EmptyFS

NextParse == \E output \in ParseOutputs : ParseStatusFromOutput(output)

SpecParse == InitParse /\ [][NextParse]_vars

\* The agent process: any chunks on standard output and standard error, up to
\* MaxData data events, and any exit code.
InitStream ==
    /\ run = IdleRun
    /\ test = IdleTest
    /\ fileOutput = NoFileOutput
    /\ lastOp = NoOp
    /\ findings = <<>>
    /\ dirs = StateDirs
    /\ shutdown = NoShutdown
    /\ runner = NoRunner
    /\ child = NoChild
    /\ fs = EmptyFS

NextStream ==
    \/ \E chunk \in Chunks(StdoutTokens) : StdoutData(chunk)
    \/ \E chunk \in Chunks(StderrTokens) : StderrData(chunk)
    \/ \E code \in ExitCodes \cup {NullCode} : Close(code)

SpecStream == InitStream /\ [][NextStream]_vars

\* Two executions at once: runOrchestration on "a", whose stories are all
\* completed, and runTesting on "b", which is in testing.
AllDone == {<<Done(US(1))>>, <<Done(US(1)), Done(US(2))>>}

InitConc ==
    /\ run = IdleRun
    /\ test = IdleTest
    /\ fileOutput = NoFileOutput
    /\ lastOp = NoOp
    /\ findings = <<>>
    /\ dirs = StateDirs
    /\ shutdown = NoShutdown
    /\ runner = NoRunner
    /\ child = NoChild
    /\ \E la \in AllDone, lb \in AllDone, place \in {"pending", "in_progress"},
          pa \in BOOLEAN, pb \in BOOLEAN, verification \in BOOLEAN :
          fs = Place(Place(EmptyFS, "a", place,
                           PRDDir(NewPRD("a", la, <<>>), [NoFiles EXCEPT !.progress = pa])),
                     "b", "testing",
                     PRDDir(NewPRD("b", lb, <<>>),
                            [NoFiles EXCEPT !.progress = pb, !.verification = verification]))

NextConc ==
    \/ StartOrchestration("a")
    \/ OrchReadsFindings
    \/ OrchAppendsFindings
    \/ OrchMovesToTesting
    \/ StartTesting("b")
    \/ \E passed \in BOOLEAN : HealthCheck(passed)
    \/ \E fixResult \in {"fixed", "not_fixable"} : FixReturns(fixResult)
    \/ \E unchecked \in BOOLEAN : TestReadsFindings(QAOutput(TRUE, FALSE, unchecked, {}))
    \/ TestAppendsFindings
    \/ TestMovesToCompleted

SpecConc == InitConc /\ [][NextConc]_vars

----------------------------------------------------------------------------
(* Properties of the store calls *)

\* the positions of the stories getNextStory may return
Workable(stories) ==
    {i \in 1..Len(stories) : stories[i].status \in {"pending", "in_progress"}}

\* C2: getNextStory returns the story of the lowest priority number among the
\* pending and in_progress stories, the first declared of them when several
\* share it, never a blocked or completed story, and null when no story is
\* pending or in_progress.
C2_GetNextStoryLowestFirstDeclared ==
    lastOp.op = "getNextStory" /\ lastOp.ok =>
        LET stories == getPRD(fs, lastOp.name).val.stories
            W == Workable(stories)
        IN IF W = {} THEN lastOp.ret = NoStory
           ELSE \E i \in W :
                  /\ lastOp.ret = stories[i]
                  /\ \A j \in W : /\ stories[i].priority <= stories[j].priority
                                  /\ stories[j].priority = stories[i].priority => i <= j

\* getNextStory returned the second story: the third has the same priority, and
\* the first has a lower priority number and is blocked
C2_Witness ==
    /\ lastOp.op = "getNextStory" /\ lastOp.ok
    /\ LET stories == getPRD(fs, lastOp.name).val.stories IN
        /\ Len(stories) = 3
        /\ stories[1].status = "blocked" /\ stories[1].priority = 1
        /\ stories[2].status = "pending" /\ stories[2].priority = 2
        /\ stories[3].status = "in_progress" /\ stories[3].priority = 2
        /\ lastOp.ret = stories[2]

\* C7: unblockStory on a blocked story succeeds exactly when it is given as many
\* answers as the story has questions, and then the story holds the answers and
\* is pending; given another number of answers it fails and the store is as before.
C7_UnblockStoryNeedsEveryAnswer ==
    [][ lastOp'.op = "unblockStory" /\ getPRD(fs, lastOp'.name).ok =>
          LET prd == getPRD(fs, lastOp'.name).val
              i == FindStory(prd.stories, lastOp'.arg[1])
              answers == lastOp'.arg[2]
          IN i # 0 /\ prd.stories[i].status = "blocked" =>
               IF Len(answers) = Len(prd.stories[i].questions)
               THEN /\ lastOp'.ok
                    /\ findPRDLocation(fs', lastOp'.name) = findPRDLocation(fs, lastOp'.name)
                    /\ getPRD(fs', lastOp'.name).val =
                         [prd EXCEPT !.stories[i].answers = {answers},
                                     !.stories[i].status = "pending"]
               ELSE ~lastOp'.ok /\ fs' = fs ]_vars

\* the first story was unblocked with its two answers, and the call on
\* the second, with two answers for its one question, failed and left it blocked
C7_Witness ==
    /\ lastOp.op = "unblockStory" /\ ~lastOp.ok
    /\ lastOp.arg[1] = US(2) /\ Len(lastOp.arg[2]) = 2
    /\ LET stories == getPRD(fs, "a").val.stories IN
        /\ Len(stories) = 2
        /\ stories[1].status = "pending" /\ stories[1].answers = {<<"A", "A">>}
        /\ stories[2].status = "blocked" /\ Len(stories[2].questions) = 1
        /\ stories[2].answers = {}

\* C8: movePRD to the status folder the PRD is in returns without error and
\* changes nothing in any folder.
C8_MoveToSameStatusIsNoOp ==
    [][ lastOp'.op = "movePRD" /\ findPRDLocation(fs, lastOp'.name) = lastOp'.arg =>
          lastOp'.ok /\ fs' = fs ]_vars

\* movePRD found the PRD in the folder it was asked to move it to, beside a
\* leftover directory of its name in another folder
C8_Witness ==
    /\ lastOp.op = "movePRD" /\ lastOp.ok /\ lastOp.at = lastOp.arg
    /\ findPRDLocation(fs, lastOp.name) = lastOp.arg
    /\ \E s \in Statuses : fs[s][lastOp.name].kind = "dir"

\* C9: movePRD fails with "PRD not found" when no status folder holds the PRD,
\* and fails when the destination, another folder than the PRD's, holds a
\* directory of its name; either way every folder is as before.
C9_MoveFailuresChangeNothing ==
    [][ lastOp'.op = "movePRD" =>
          LET currentStatus == findPRDLocation(fs, lastOp'.name) IN
          /\ currentStatus = "null" =>
               ~lastOp'.ok /\ lastOp'.err = "PRD not found" /\ fs' = fs
          /\ currentStatus \notin {"null", lastOp'.arg}
               /\ fs[lastOp'.arg][lastOp'.name].kind # "none" =>
               ~lastOp'.ok /\ fs' = fs ]_vars

\* movePRD found the PRD and failed on the directory the destination holds
C9_Witness ==
    /\ lastOp.op = "movePRD" /\ ~lastOp.ok /\ lastOp.err = "PRD already exists"
    /\ lastOp.at \in Statuses /\ lastOp.at # lastOp.arg
    /\ fs[lastOp.at][lastOp.name].kind = "prd"
    /\ fs[lastOp.arg][lastOp.name].kind = "dir"

\* C10: after updatePRD, getPRD returns the name the PRD had, every other
\* field of the payload with the payload's value, and every other field as it was.
C10_UpdateKeepsName ==
    [][ lastOp'.op = "updatePRD" /\ getPRD(fs, lastOp'.name).ok =>
          LET existing == getPRD(fs, lastOp'.name).val
              updates == lastOp'.arg
              read == getPRD(fs', lastOp'.name)
          IN /\ lastOp'.ok /\ read.ok
             /\ DOMAIN read.val = DOMAIN existing
             /\ read.val.name = existing.name
             /\ \A k \in DOMAIN existing \ {"name"} :
                  read.val[k] = IF k \in DOMAIN updates THEN updates[k] ELSE existing[k] ]_vars

\* updatePRD was given another name and another description: the PRD reads
\* back with its name and with the new description
C10_Witness ==
    /\ lastOp.op = "updatePRD" /\ lastOp.ok
    /\ lastOp.arg = [name |-> "other", description |-> "d1"]
    /\ getPRD(fs, "a").ok
    /\ getPRD(fs, "a").val.name = "a"
    /\ getPRD(fs, "a").val.description = "d1"

\* the status folders in which a folder of the name holds prd.json or spec.md
Holders(f, name) == {s \in Statuses : f[s][name].kind \in {"prd", "spec"}}

\* C34: when a PRD name is held by at most one status folder, a movePRD call,
\* successful or failing, leaves it held by as many folders as before (one
\* folder stays one folder), and findPRDLocation returns that folder.
C34_LocationIsSingleValued ==
    [][ lastOp'.op = "movePRD" =>
          \A name \in Names :
              Cardinality(Holders(fs, name)) <= 1 =>
                  /\ Cardinality(Holders(fs', name)) = Cardinality(Holders(fs, name))
                  /\ Holders(fs', name) # {} => Holders(fs', name) = {findPRDLocation(fs', name)}
                  /\ Holders(fs', name) = {} => findPRDLocation(fs', name) = "null" ]_vars

\* a second movePRD call in a row: the first one moved the PRD, this one moved
\* it on or failed, and one folder holds it
C34_Witness ==
    /\ lastOp.op = "movePRD" /\ lastOp.at # "null" /\ lastOp.at # lastOp.arg
    /\ Cardinality(Holders(fs, lastOp.name)) = 1
    /\ findPRDLocation(fs, lastOp.name) \in {lastOp.at, lastOp.arg}

----------------------------------------------------------------------------
(* Properties of the dependency gate *)

\* a dependency is satisfied when it is in the completed folder, or in the
\* pending or in_progress folder with every story completed
SatisfiedDependency(f, dep) ==
    \/ findPRDLocation(f, dep) = "completed"
    \/ /\ findPRDLocation(f, dep) \in {"pending", "in_progress"}
       /\ getPRD(f, dep).ok
       /\ AllCompleted(getPRD(f, dep).val.stories)

\* C4: canStartPRD returns canStart = true exactly when unmetDependencies is
\* empty, and unmetDependencies holds exactly the dependencies that are not
\* satisfied: a dependency is satisfied when it is in the completed folder, or
\* in the pending or in_progress folder with every story completed.
C4_CanStartIffDependenciesSatisfied ==
    lastOp.op = "canStartPRD" /\ lastOp.ok =>
        LET deps == getPRD(fs, lastOp.name).val.dependencies
            unmet == lastOp.ret.unmetDependencies
        IN /\ lastOp.ret.canStart = (unmet = <<>>)
           /\ {unmet[i] : i \in 1..Len(unmet)} =
                {deps[i] : i \in {j \in 1..Len(deps) : ~SatisfiedDependency(fs, deps[j])}}

\* canStartPRD reported a dependency unmet that is in in_progress with its
\* stories all completed
C4_Witness ==
    /\ lastOp.op = "canStartPRD" /\ lastOp.ok /\ lastOp.name = "a"
    /\ lastOp.ret.unmetDependencies = <<"b">>
    /\ findPRDLocation(fs, "b") = "in_progress"
    /\ getPRD(fs, "b").val.stories # <<>>
    /\ AllCompleted(getPRD(fs, "b").val.stories)

DependsOn(f, name, dep) ==
    /\ getPRD(f, name).ok
    /\ \E i \in 1..Len(getPRD(f, name).val.dependencies) :
          getPRD(f, name).val.dependencies[i] = dep

\* the PRDs on a dependency cycle through name (with two names: name itself,
\* or name and the other one)
CycleOf(f, name) ==
    {other \in Names : DependsOn(f, name, other) /\ DependsOn(f, other, name)}

\* no dependency of name is a directory without prd.json
DependenciesReadable(f, name) ==
    \A i \in 1..Len(getPRD(f, name).val.dependencies) :
        LET dep == getPRD(f, name).val.dependencies[i]
        IN findPRDLocation(f, dep) # "null" => getPRD(f, dep).ok

\* outside the completed folder and with a story that is not completed
Unfinished(f, name) ==
    /\ findPRDLocation(f, name) # "completed"
    /\ ~AllCompleted(getPRD(f, name).val.stories)

\* C33 as stated: on a cyclic dependency graph canStartPRD returns (it throws
\* only for a dependency without prd.json), and for a PRD on the cycle it
\* returns canStart = false with unmetDependencies not empty, in every state.
C33_CycleMembersNeverStart ==
    /\ lastOp.op = "canStartPRD" /\ CycleOf(fs, lastOp.name) # {}
    /\ DependenciesReadable(fs, lastOp.name)
    =>  /\ lastOp.ok
        /\ ~lastOp.ret.canStart
        /\ lastOp.ret.unmetDependencies # <<>>

\* C33 amended: on a cyclic dependency graph canStartPRD returns (it throws
\* only for a dependency without prd.json), and for a PRD on the cycle it
\* returns canStart = false with unmetDependencies not empty as long as every
\* PRD on the cycle is outside the completed folder and has a story that is
\* not completed.
C33_CycleMembersStartOnlyWhenOneIsDone ==
    /\ lastOp.op = "canStartPRD" /\ CycleOf(fs, lastOp.name) # {}
    /\ DependenciesReadable(fs, lastOp.name)
    =>  /\ lastOp.ok
        /\ (\A member \in CycleOf(fs, lastOp.name) : Unfinished(fs, member)) =>
              /\ ~lastOp.ret.canStart
              /\ lastOp.ret.unmetDependencies # <<>>

\* "a" and "b" depend on each other, both are unfinished, and canStartPRD("a")
\* returned "b" as unmet
C33_Witness ==
    /\ lastOp.op = "canStartPRD" /\ lastOp.ok /\ lastOp.name = "a"
    /\ CycleOf(fs, "a") = {"b"}
    /\ Unfinished(fs, "a") /\ Unfinished(fs, "b")
    /\ ~lastOp.ret.canStart /\ lastOp.ret.unmetDependencies = <<"b">>

----------------------------------------------------------------------------
(* Properties of the development loop *)

StatusesOf(f, name) ==
    LET stories == getPRD(f, name).val.stories IN [i \in 1..Len(stories) |-> stories[i].status]

StatusOf(f, name, storyId) ==
    LET stories == getPRD(f, name).val.stories
        i == FindStory(stories, storyId)
    IN IF i = 0 THEN "" ELSE stories[i].status

C3_NoIterationWithUnmetDependency ==
    [][ run.unmetAtStart \/ run'.unmetAtStart =>
          /\ run'.agentCalls = 0
          /\ StatusesOf(fs', "a") = StatusesOf(fs, "a") ]_vars

\* runOrchestration has invoked the agent for a PRD whose dependency was unmet
C3_Witness ==
    /\ run.unmetAtStart /\ run.agentCalls > 0
    /\ ~canStartPRD(fs, "a").val.canStart

\* C5: when a pass of the loop leaves the current story blocked, whether the
\* agent set it in the store, the output implied it or the loop auto-blocked
\* it, runOrchestration returns without another agent invocation and the
\* persisted lastRun names that story with reason "blocked".
C5_BlockedStopsWithLastRun ==
    [][ /\ run.pc \in {"loop", "agent"}
        /\ run'.currentStory # NoStoryId
        /\ StatusOf(fs', run.prd, run'.currentStory) = "blocked"
        => /\ run'.pc = "returned"
           /\ run'.agentCalls = run.agentCalls
           /\ getPRD(fs', run.prd).val.lastRun = LastRun(run'.currentStory, "blocked") ]_vars

\* runOrchestration returned on a story it marked blocked from the agent's
\* output; lastRun does not name it as blocked
C5_Witness ==
    /\ run.pc = "returned" /\ run.currentStory # NoStoryId
    /\ LET prd == getPRD(fs, run.prd).val
           i == FindStory(prd.stories, run.currentStory)
       IN /\ prd.stories[i].status = "blocked"
          /\ prd.stories[i].questions = InferredBlockQuestions
          /\ prd.lastRun # LastRun(run.currentStory, "blocked")

\* the story the pass of the loop about to run selects
Chosen == getNextStory(fs, run.prd).val

StoryOf(f, name, storyId) ==
    LET stories == getPRD(f, name).val.stories IN stories[FindStory(stories, storyId)]

\* C12: a pass of the loop whose chosen story is in_progress and whose attempt
\* number (the stored iterationCount plus one, which a stored count above 3
\* implies) exceeds 3 sets that story to blocked with exactly one synthetic
\* question and returns without invoking the agent.
C12_StuckStoryIsAutoBlocked ==
    [][ /\ run.pc = "loop" /\ run.i < MaxIterations
        /\ Chosen # NoStory
        /\ Chosen.status = "in_progress"
        /\ Chosen.iterationCount + 1 > Threshold
        => /\ StoryOf(fs', run.prd, Chosen.id).status = "blocked"
           /\ StoryOf(fs', run.prd, Chosen.id).questions = AutoBlockQuestions
           /\ Len(AutoBlockQuestions) = 1
           /\ run'.pc = "returned"
           /\ run'.agentCalls = run.agentCalls ]_vars

\* the loop returned on a story it auto-blocked after three attempts
C12_Witness ==
    /\ run.pc = "returned" /\ run.currentStory # NoStoryId
    /\ LET story == StoryOf(fs, run.prd, run.currentStory)
       IN /\ story.status = "blocked"
          /\ story.questions = AutoBlockQuestions
          /\ story.iterationCount = Threshold

Running == run.pc \in {"loop", "agent"}

\* the steps a running runOrchestration can still take: two for each pass left
\* (up to the agent call, and the agent's return) and the exit of the loop
StepsLeft(r) ==
    IF r.pc = "loop" THEN 2 * (MaxIterations - r.i) + 2
    ELSE IF r.pc = "agent" THEN 2 * (MaxIterations - r.i) + 1
    ELSE 0

\* C13: one call of runOrchestration invokes the agent at most
\* default_iterations times; every step it takes while running (an agent call
\* that returns included) leaves fewer steps to take, so it returns; and the
\* pass that finds the budget used up returns with the PRD in the folder it
\* was in and without another agent call.
C13_BudgetBoundsAgentCalls ==
    [][ /\ run'.agentCalls <= MaxIterations
        /\ run'.pc = "loop" => run'.i <= MaxIterations
        /\ run'.pc = "agent" => run'.i < MaxIterations
        /\ Running => StepsLeft(run') < StepsLeft(run)
        /\ run.pc = "loop" /\ run.i >= MaxIterations =>
              /\ run'.pc = "returned"
              /\ run'.agentCalls = run.agentCalls
              /\ findPRDLocation(fs', run.prd) = findPRDLocation(fs, run.prd) ]_vars

\* the loop returned with the budget used up on agent calls, a story still to
\* do and the PRD where it was
C13_Witness ==
    /\ run.pc = "returned"
    /\ run.i = MaxIterations /\ run.agentCalls = MaxIterations
    /\ ~isPRDComplete(fs, run.prd).val
    /\ getPRD(fs, run.prd).val.lastRun = LastRun(run.currentStory, "user_interrupted")
    /\ findPRDLocation(fs, run.prd) = "pending"

HasStory(f, name, status) ==
    \E i \in 1..Len(getPRD(f, name).val.stories) : getPRD(f, name).val.stories[i].status = status

\* C14: a runOrchestration started on a PRD that has a blocked story returns
\* at once: no agent invocation, every story status as before and the PRD in
\* the folder it was in, other stories pending or not; and a call that has
\* returned does nothing further.
C14_BlockedAtStartIsNotResumed ==
    [][ /\ run.pc = "idle" /\ run'.pc # "idle" /\ HasStory(fs, run'.prd, "blocked")
           => /\ run'.pc = "returned"
              /\ run'.agentCalls = 0
              /\ StatusesOf(fs', run'.prd) = StatusesOf(fs, run'.prd)
              /\ findPRDLocation(fs', run'.prd) = findPRDLocation(fs, run'.prd)
        /\ run.pc = "returned" => run'.pc = "idle" /\ fs' = fs ]_vars

\* runOrchestration returned at its start from a PRD with a blocked story and
\* a pending one
C14_Witness ==
    /\ run.pc = "returned" /\ run.i = 0 /\ run.currentStory = NoStoryId
    /\ run.agentCalls = 0
    /\ lastOp.op = "runOrchestration"
    /\ HasStory(fs, run.prd, "blocked")
    /\ HasStory(fs, run.prd, "pending")

C16_ExitCodeIsData ==
    [][ run.pc = "agent" /\ lastOp'.op = "runAgent" =>
          LET proc == lastOp'.arg
              edits == AgentEdits(getPRD(fs, run.prd).val.stories)
          IN /\ lastOp'.ok <=> ~proc.error
             /\ lastOp'.ok =>
                   /\ lastOp'.ret.output = proc.output
                   /\ lastOp'.ret.exitCode = IF proc.code \in ExitCodes THEN proc.code ELSE 1
                   /\ \E edit \in edits :
                         /\ [fs |-> fs', findings |-> findings', run |-> run'] =
                               AfterAgent(fs, findings, run, edit, proc.output, proc.code)
                         /\ \A code \in ExitCodes :
                               [fs |-> fs', findings |-> findings', run |-> run'] =
                                  AfterAgent(fs, findings, run, edit, proc.output, code) ]_vars

\* the agent exited with a code other than zero, said it had completed the
\* story, and the loop went on to its next pass with the story completed
C16_Witness ==
    /\ lastOp.op = "runAgent" /\ lastOp.ok
    /\ lastOp.ret.exitCode = 2
    /\ run.pc = "loop" /\ run.i = 1
    /\ StatusOf(fs, run.prd, run.currentStory) = "completed"

\* the step in which runAgent resolved and the pass ran to its end; the
\* process is the lastOp argument after it
AgentPass == run.pc = "agent" /\ lastOp'.op = "runAgent" /\ lastOp'.ok

OthersAsIn(f, g, name, storyId) ==
    LET old == getPRD(f, name).val.stories
        new == getPRD(g, name).val.stories
    IN /\ Len(new) = Len(old)
       /\ \A i \in 1..Len(old) : old[i].id # storyId => new[i].status = old[i].status

\* C23: when the output carries the unit-completion marker and the store
\* shows a story that is not completed, the PRD stays in its folder, the
\* current story is completed in the store after the pass, and the other
\* stories have the statuses the agent left them with.
C23_MarkerCompletesCurrentStoryOnly ==
    [][ /\ AgentPass /\ lastOp'.arg.output.complete
        /\ ~AllCompleted(getPRD(fs', run.prd).val.stories)
        => /\ findPRDLocation(fs', run.prd) = findPRDLocation(fs, run.prd)
           /\ StatusOf(fs', run.prd, run.currentStory) = "completed"
           /\ \E edit \in AgentEdits(getPRD(fs, run.prd).val.stories) :
                 OthersAsIn(ApplyEdit(fs, run.prd, edit), fs', run.prd, run.currentStory) ]_vars

\* the agent printed the marker without touching prd.json: the pass returned
\* with lastRun story_completed and the story still in_progress
C23_Witness ==
    /\ lastOp.op = "runAgent" /\ lastOp.ok /\ lastOp.arg.output.complete
    /\ run.pc = "returned"
    /\ StatusOf(fs, run.prd, run.currentStory) = "in_progress"
    /\ getPRD(fs, run.prd).val.lastRun = LastRun(run.currentStory, "story_completed")
    /\ findPRDLocation(fs, run.prd) = "pending"

\* the pass made of the agent's edit what the rest of the loop body computes
PassWith(edit) ==
    [fs |-> fs', findings |-> findings', run |-> run'] =
        AfterAgent(fs, findings, run, edit, lastOp'.arg.output, lastOp'.arg.code)

\* C24: after an agent run without the unit-completion marker, a current
\* story that the store shows completed or blocked keeps that status and its
\* questions, whatever the output heuristics say; otherwise the status the
\* heuristics infer is written, or none when they infer nothing.
C24_StoreStatusWinsOverHeuristics ==
    [][ AgentPass /\ ~lastOp'.arg.output.complete =>
          \E edit \in AgentEdits(getPRD(fs, run.prd).val.stories) :
             LET stored == StoryOf(ApplyEdit(fs, run.prd, edit), run.prd, run.currentStory)
                 after == StoryOf(fs', run.prd, run.currentStory)
                 inferred == parseStatusFromOutput(lastOp'.arg.output)
             IN /\ PassWith(edit)
                /\ IF stored.status \in {"completed", "blocked"}
                   THEN after.status = stored.status /\ after.questions = stored.questions
                   ELSE after.status = IF inferred = "null" THEN stored.status ELSE inferred ]_vars

\* the agent set the story to completed in prd.json while its output matched
\* a blocked pattern: the story is completed and the loop goes on
C24_Witness ==
    /\ lastOp.op = "runAgent" /\ lastOp.ok /\ ~lastOp.arg.output.complete
    /\ parseStatusFromOutput(lastOp.arg.output) = "blocked"
    /\ lastOp.arg.output.block # {}
    /\ run.pc = "loop" /\ run.i = 1
    /\ StatusOf(fs, run.prd, run.currentStory) = "completed"

\* C25: a pass of the loop after which the current story is completed, and
\* before which it was not, leaves its persisted iterationCount at zero,
\* whether the agent set the status in the store, the completion was inferred
\* from the output, or the output carried the unit-completion marker.
C25_CompletionResetsIterationCount ==
    [][ /\ AgentPass
        /\ StatusOf(fs, run.prd, run.currentStory) # "completed"
        /\ StatusOf(fs', run.prd, run.currentStory) = "completed"
        => StoryOf(fs', run.prd, run.currentStory).iterationCount = 0 ]_vars

\* the completion of the current story was inferred from an output without the
\* marker, and the loop goes on
C25_Witness ==
    /\ lastOp.op = "runAgent" /\ lastOp.ok /\ ~lastOp.arg.output.complete
    /\ parseStatusFromOutput(lastOp.arg.output) = "completed"
    /\ run.pc = "loop" /\ run.i = 1
    /\ StatusOf(fs, run.prd, run.currentStory) = "completed"

\* C26: after every pass of the loop in which the agent ran and whose output
\* had no unit-completion marker, the persisted lastRun names the story of
\* that pass, whatever the classification of the pass was.
C26_LastRunWrittenEveryIteration ==
    [][ AgentPass /\ ~lastOp'.arg.output.complete
        => getPRD(fs', run.prd).val.lastRun.storyId = run.currentStory ]_vars

\* a pass without any signal: the store shows the story in_progress, the
\* output infers nothing, and the loop goes on
C26_Witness ==
    /\ lastOp.op = "runAgent" /\ lastOp.ok /\ ~lastOp.arg.output.complete
    /\ parseStatusFromOutput(lastOp.arg.output) = "null"
    /\ run.pc = "loop" /\ run.i = 1
    /\ StatusOf(fs, run.prd, run.currentStory) = "in_progress"

\* C27: a step by which runOrchestration leaves its loop without a failure is
\* taken with the budget used up, or with an interrupt received, or leaves the
\* PRD in testing, or leaves the current story blocked; a pass whose output has
\* the unit-completion marker while stories remain goes on like any other.
C27_StopsOnlyForFourReasons ==
    [][ run.pc \in {"loop", "agent"} /\ run'.pc = "returned" /\ run'.err = ""
        => \/ run.pc = "loop" /\ ~BudgetLeft(run.i)
           \/ shutdown.isShuttingDown
           \/ findPRDLocation(fs', run.prd) = "testing"
           \/ StatusOf(fs', run.prd, run'.currentStory) = "blocked" ]_vars

\* the output had the marker, a story is left, and the run has returned with
\* budget left, the PRD not in testing and the current story not blocked
C27_Witness ==
    /\ lastOp.op = "runAgent" /\ lastOp.ok /\ lastOp.arg.output.complete
    /\ run.pc = "returned" /\ run.err = "" /\ BudgetLeft(run.i + 1)
    /\ findPRDLocation(fs, run.prd) # "testing"
    /\ ~AllCompleted(getPRD(fs, run.prd).val.stories)
    /\ StatusOf(fs, run.prd, run.currentStory) # "blocked"

\* C32: a step of runOrchestration that moves the PRD into the testing folder
\* leaves every story of it completed, whatever statuses the agent gave to
\* stories other than the current one.
C32_TestingOnlyWithAllCompleted ==
    [][ findPRDLocation(fs, "a") # "testing" /\ findPRDLocation(fs', "a") = "testing"
        => AllCompleted(getPRD(fs', "a").val.stories) ]_vars

\* the loop found no story to select and moved the PRD to testing while a
\* story of it is blocked
C32_Witness ==
    /\ run.pc = "returned" /\ run.err = ""
    /\ findPRDLocation(fs, "a") = "testing"
    /\ getPRD(fs, "a").val.lastRun = LastRun(AllId, "completed")
    /\ HasStory(fs, "a", "blocked")

\* the pass about to run hands its story to the agent
Hands == run.pc = "loop" /\ run'.agentCalls = run.agentCalls + 1

\* C36: a story that is in_progress is handed to the agent only as attempt 2 or
\* 3 (each handing raises its stored count by one, and the count of a story
\* that stays in_progress never drops), so it is handed at most 3 times in a
\* row; selected again it is blocked without an agent call; and a story leaves
\* blocked only as pending and becomes in_progress only by being handed to the
\* agent, so an unblocked story is handed once before it can be auto-blocked.
C36_ThreeAttemptsThenBlocked ==
    [][ /\ Hands =>
              /\ Chosen.status = "in_progress" => Chosen.iterationCount + 1 <= Threshold
              /\ StoryOf(fs', run.prd, Chosen.id).iterationCount = Chosen.iterationCount + 1
              /\ StoryOf(fs', run.prd, Chosen.id).status = "in_progress"
              /\ run'.currentStory = Chosen.id
        /\ (/\ run.pc = "loop" /\ run.i < MaxIterations /\ Chosen # NoStory
            /\ Chosen.status = "in_progress" /\ Chosen.iterationCount >= Threshold)
              => /\ ~Hands
                 /\ StoryOf(fs', run.prd, Chosen.id).status = "blocked"
        /\ getPRD(fs, "a").ok /\ getPRD(fs', "a").ok =>
              \A k \in 1..Len(getPRD(fs, "a").val.stories) :
                  LET before == getPRD(fs, "a").val.stories[k]
                      after == getPRD(fs', "a").val.stories[k]
                  IN /\ before.status = "in_progress" /\ after.status = "in_progress"
                          => after.iterationCount >= before.iterationCount
                     /\ before.status # "in_progress" /\ after.status = "in_progress"
                          => Hands /\ Chosen.id = before.id
                     /\ before.status = "blocked" /\ after.status # "blocked"
                          => after.status = "pending" /\ lastOp'.op = "unblockStory"
                     /\ after.status = "blocked" /\ after.questions = AutoBlockQuestions
                        /\ before.status # "blocked"
                          => before.status = "in_progress" ]_vars

\* a story that was auto-blocked and unblocked by an answer was handed to the
\* agent once more and is auto-blocked again
C36_Witness ==
    /\ run.pc = "returned" /\ run.currentStory # NoStoryId
    /\ LET story == StoryOf(fs, run.prd, run.currentStory)
       IN /\ story.status = "blocked"
          /\ story.questions = AutoBlockQuestions
          /\ story.answers # {}
          /\ story.iterationCount = Threshold + 1

InProgress(stories) == {k \in 1..Len(stories) : stories[k].status = "in_progress"}

\* C35: through runOrchestration iterations, unblockStory calls and runTesting
\* passes on one PRD, with the agent editing only the status of its current
\* story, at most one story of the PRD has status in_progress.
C35_AtMostOneInProgress ==
    getPRD(fs, "a").ok => Cardinality(InProgress(getPRD(fs, "a").val.stories)) <= 1

\* a fix story was added by a testing pass and a story is in progress
C35_Witness ==
    /\ getPRD(fs, "a").ok
    /\ CountFix(getPRD(fs, "a").val.stories) > 0
    /\ Cardinality(InProgress(getPRD(fs, "a").val.stories)) = 1

----------------------------------------------------------------------------
(* Properties of the testing loop *)

\* the bulleted issues of the output: the lines of the <issues> block that
\* start with a dash and have text after it
BulletedIssues(output) ==
    IF output.issues = {} THEN 0
    ELSE LET lines == CHOOSE l \in output.issues : TRUE
         IN Cardinality({i \in 1..Len(lines) : lines[i].dash /\ lines[i].text # ""})

\* one more than the highest number of the fix stories that carry a number
NextFixNumber(stories) ==
    LET nums == {parseInt(stories[i].id.digits) :
                    i \in {j \in 1..Len(stories) : stories[j].id.pfx = "FIX"}} \ {-1}
    IN IF nums = {} THEN 1 ELSE Max(nums) + 1

\* runTesting, run on a PRD in testing, detected a failed verification and returned
FailedPass ==
    /\ test.pc = "qa" /\ test'.pc = "returned"
    /\ test'.status = "testing"
    /\ test'.output.failed /\ ~test'.output.verified

\* the story C6 describes is appended, with this number of acceptance criteria
FixStoryAppended(criteria) ==
    LET old == getPRD(fs, test.prd).val.stories
        new == getPRD(fs', test.prd).val.stories
        fix == new[Len(new)]
    IN /\ Len(new) = Len(old) + 1
       /\ SubSeq(new, 1, Len(old)) = old
       /\ fix.status = "pending" /\ fix.priority = 1
       /\ fix.id.pfx = "FIX"
       /\ Len(fix.id.digits) >= 3
       /\ parseInt(fix.id.digits) = NextFixNumber(old)
       /\ \A i \in 1..Len(old) : old[i].id # fix.id
       /\ Len(fix.acceptanceCriteria) = criteria

MovedBack ==
    /\ findPRDLocation(fs, test.prd) = "testing"
    /\ findPRDLocation(fs', test.prd) = "in_progress"
    /\ test'.err = ""

QAPass == test.pc = "qa" /\ test'.pc = "returned"

FolderOf(f) == findPRDLocation(f, test.prd)

\* C17: when the QA output carries PRD_VERIFIED, the findings extracted from
\* the progress log are appended to the project-level findings.md and to the
\* PRD's findings.md, and then the PRD is moved to completed: a move that
\* throws because completed holds a directory of that name leaves the
\* findings appended and the PRD where it was; the stories are as before.
C17_VerifiedPersistsFindingsThenMoves ==
    [][ QAPass /\ test'.output.verified =>
          LET name == test.prd
              extracted == fs[FolderOf(fs)][name].files.progress
          IN /\ findings' = IF extracted THEN Append(findings, name) ELSE findings
             /\ fs'[FolderOf(fs')][name].files.findings =
                   fs[FolderOf(fs)][name].files.findings + (IF extracted THEN 1 ELSE 0)
             /\ IF fs["completed"][name].kind = "none" \/ FolderOf(fs) = "completed"
                THEN FolderOf(fs') = "completed" /\ test'.result = "verified" /\ test'.err = ""
                ELSE FolderOf(fs') = FolderOf(fs) /\ test'.err # ""
             /\ getPRD(fs', name).val.stories = getPRD(fs, name).val.stories ]_vars

\* runTesting returned "verified" for a PRD it found in testing: its findings
\* are in both findings.md files and it is in completed
C17_Witness ==
    /\ test.pc = "returned" /\ test.result = "verified" /\ test.status = "testing"
    /\ test.output.verified
    /\ findings = <<test.prd>>
    /\ findPRDLocation(fs, test.prd) = "completed"
    /\ fs["completed"][test.prd].files.findings = 1

\* C40: detectTestResult returns verified for every output with the
\* PRD_VERIFIED marker, with or without the PRD_FAILED marker; for a QA output
\* with both markers runTesting adds no fix story and moves the PRD to
\* completed and returns verified (the move throws only when completed holds
\* a directory of that name, and then the PRD stays where it was).
C40_VerifiedWinsOverFailed ==
    [][ QAPass /\ test'.output.verified =>
          LET name == test.prd IN
          /\ detectTestResult(test'.output) = "verified"
          /\ test'.output.failed =>
                /\ getPRD(fs', name).val.stories = getPRD(fs, name).val.stories
                /\ CountFix(getPRD(fs', name).val.stories) = CountFix(getPRD(fs, name).val.stories)
                /\ IF fs["completed"][name].kind = "none" \/ FolderOf(fs) = "completed"
                   THEN FolderOf(fs') = "completed" /\ test'.result = "verified" /\ test'.err = ""
                   ELSE FolderOf(fs') = FolderOf(fs) /\ test'.err # "" ]_vars

\* runTesting returned "verified" on an output with both markers: the PRD it
\* found in testing is in completed, without a fix story
C40_Witness ==
    /\ test.pc = "returned" /\ test.result = "verified" /\ test.status = "testing"
    /\ test.output.verified /\ test.output.failed
    /\ findPRDLocation(fs, test.prd) = "completed"
    /\ CountFix(getPRD(fs, test.prd).val.stories) = 0

\* C18: when the QA output carries neither marker, runTesting returns
\* "unknown" with the PRD in the folder it was in and its prd.json, stories
\* included, as it was; nothing is appended to the findings.
C18_NoSignalLeavesPRDUnchanged ==
    [][ QAPass /\ ~test'.output.verified /\ ~test'.output.failed =>
          /\ test'.result = "unknown" /\ test'.err = ""
          /\ FolderOf(fs') = FolderOf(fs)
          /\ getPRD(fs', test.prd) = getPRD(fs, test.prd)
          /\ findings' = findings ]_vars

\* runTesting returned "unknown" for a PRD in testing, which is still there
C18_Witness ==
    /\ test.pc = "returned" /\ test.result = "unknown" /\ test.status = "testing"
    /\ ~test.output.verified /\ ~test.output.failed
    /\ findPRDLocation(fs, test.prd) = "testing"

\* C19: a runTesting that has run the setup script has run the teardown script
\* after it by the time it returns or throws.
C19_TeardownBeforeReturn ==
    test.pc = "returned" /\ test.env # "none" => test.env = "down"

\* runTesting threw out of movePRD after a verified pass, the environment up
C19_Witness ==
    /\ test.pc = "returned" /\ test.err # "" /\ test.env = "up"
    /\ test.output.verified

InHealthLoop(t) == t.pc \in {"health", "fix"}

\* C30: in runTesting a cycle runs teardown, setup, start and the health check
\* in that order, at most MaxHealthFixAttempts times, and again only after the
\* fix agent reported FIXED; the fix agent runs only after a failed health
\* check and at most MaxHealthFixAttempts - 1 times; the loop is left on a
\* passed health check, on a fix result other than FIXED, or at the cap, and
\* then the QA agent is invoked, once.
C30_HealthLoopBoundedThenQA ==
    [][ /\ test.pc = "health" =>
              /\ test'.scripts = Lifecycle
              /\ test.attempt <= MaxHealthFixAttempts
              /\ test.attempt > 1 => test.fix = "fixed"
              /\ test'.pc = "fix" <=>
                    test'.health = "failed" /\ test.attempt < MaxHealthFixAttempts
        /\ test'.pc # "idle" /\ test'.fixCalls # test.fixCalls =>
              /\ test.pc = "health" /\ test'.health = "failed"
              /\ test'.fixCalls = test.fixCalls + 1
              /\ test'.fixCalls <= MaxHealthFixAttempts - 1
        /\ test.pc = "fix" =>
              IF test'.fix = "fixed"
              THEN test'.pc = "health" /\ test'.attempt = test.attempt + 1
              ELSE test'.pc = "qa"
        /\ InHealthLoop(test) /\ ~InHealthLoop(test') =>
              /\ test'.pc = "qa" /\ test'.qaCalls = 1
              /\ \/ test'.health = "passed"
                 \/ test'.fix \in {"not_fixable", "null"}
                 \/ test.attempt >= MaxHealthFixAttempts
        /\ test.pc = "qa" => test'.pc = "returned" /\ test'.qaCalls = 1 ]_vars

\* the health check failed in every cycle and the fix agent reported FIXED each
\* time: the QA agent runs after the last cycle allowed
C30_Witness ==
    /\ test.pc = "qa" /\ test.qaCalls = 1
    /\ test.attempt = MaxHealthFixAttempts /\ test.fixCalls = MaxHealthFixAttempts - 1
    /\ test.health = "failed" /\ test.scripts = Lifecycle

ReportOf(f, name) == f[findPRDLocation(f, name)][name].files.report

----------------------------------------------------------------------------
(* Properties of the sync hook *)

NoFileInTheWay(d) == \A q \in Paths : d[q] # "file"

Created(d) == \A k \in 1..Len(SyncPaths) : \A q \in Prefixes(SyncPaths[k]) : d[q] = "dir"

\* C11: a run of sync that follows a run of sync leaves the skeleton as the
\* first run left it and ends as the first did; and a run of sync succeeds
\* whatever directories exist already (only a file in the place of a directory
\* stops it), leaving every directory it is to create in place and every other
\* path as it was.
C11_SyncIsIdempotent ==
    [][lastOp'.op = "sync" =>
         /\ lastOp.op = "sync" => dirs' = dirs /\ lastOp'.ok = lastOp.ok
         /\ NoFileInTheWay(dirs) =>
               /\ lastOp'.ok
               /\ Created(dirs')
               /\ dirs'[StatusDir("in_progress")] = dirs[StatusDir("in_progress")]]_vars

C11_Witness ==
    /\ lastOp.op = "sync"
    /\ lastOp.arg = MaxSync
    /\ lastOp.ok
    /\ Created(dirs)
    /\ dirs[StatusDir("in_progress")] = "none"

----------------------------------------------------------------------------
(* Properties of two executions at once *)

Sections(name) == Len(SelectSeq(findings, LAMBDA x : x = name))

PRDFindings(name) == fs[findPRDLocation(fs, name)][name].files.findings

\* C20: when runOrchestration on one PRD and runTesting on another have both
\* returned, however their steps interleaved, each one's effects are there as
\* if it had run alone: the PRD of the first is in testing and the PRD of the
\* second in completed, and the project-level findings.md holds every section
\* that each appended (as many sections of a PRD as its own findings.md holds).
C20_InterleavedRunsDoNotInterfere ==
    run.pc = "returned" /\ test.pc = "returned" =>
        /\ findPRDLocation(fs, run.prd) = "testing"
        /\ findPRDLocation(fs, test.prd) = "completed"
        /\ \A name \in {run.prd, test.prd} : Sections(name) = PRDFindings(name)

\* both have returned and the section runOrchestration appended is gone
C20_Witness ==
    /\ run.pc = "returned" /\ test.pc = "returned"
    /\ PRDFindings(run.prd) = 1 /\ PRDFindings(test.prd) = 1
    /\ findings = <<test.prd>>

----------------------------------------------------------------------------
(* Properties of the interrupt handler *)

\* C21: however many signals arrive, handleShutdown writes the lastRun at most
\* once, with reason user_interrupted and the story current at the first
\* signal, and the process exits at most once; a signal that arrives once a
\* shutdown is under way changes nothing: no write, no exit.
C21_ShutdownFlushesOnce ==
    [][ /\ shutdown'.flushes <= 1 /\ shutdown'.exits <= 1
        /\ shutdown'.flushes > shutdown.flushes =>
              getPRD(fs', run.prd).val.lastRun = LastRun(shutdown.story, "user_interrupted")
        /\ shutdown.isShuttingDown /\ shutdown'.signals > shutdown.signals =>
              /\ fs' = fs /\ run' = run
              /\ shutdown' = [shutdown EXCEPT !.signals = @ + 1] ]_vars

\* every signal has arrived, the later ones during the flush of the first;
\* one lastRun was written and the process exited
C21_Witness ==
    /\ shutdown.signals = MaxSignals
    /\ shutdown.flushes = 1 /\ shutdown.exits = 1
    /\ run.pc = "exited"
    /\ getPRD(fs, run.prd).val.lastRun = LastRun(shutdown.story, "user_interrupted")

\* prd.json but for its lastRun
ButLastRun(prd) == [prd EXCEPT !.lastRun = NoRun]

\* C37: the write of the interrupt flush changes only the lastRun field of the
\* persisted PRD: every story status and retry counter that the main loop has
\* written by then is still there, wherever the handler's read fell between
\* the reads and writes of the main loop.
C37_FlushChangesOnlyLastRun ==
    [][ shutdown'.flushes > shutdown.flushes =>
          ButLastRun(getPRD(fs', run.prd).val) = ButLastRun(getPRD(fs, run.prd).val) ]_vars

\* the signal arrived while the story status write of the pass was in flight,
\* and the flush has written
C37_Witness ==
    /\ shutdown.flushes = 1
    /\ run.pc \in {"mark_update", "mark_write", "count", "count_write", "agent"}
    /\ getPRD(fs, run.prd).val.lastRun = LastRun(run.currentStory, "user_interrupted")

----------------------------------------------------------------------------
(* Properties of the runner state *)

Tracked(runs) == {name \in Names : runs[name] # "none"}

\* C22: a call of reconcile leaves the set of PRD names of runner.json as it
\* was; a run whose status differs afterwards was running, is now stale, and
\* its pane was reported not alive; so a run of any other status, and a
\* running run whose liveness check failed or said alive, keeps its status.
C22_ReconcileMarksNeverDeletes ==
    [][ lastOp'.op = "reconcile" =>
          /\ Tracked(runner'.runs) = Tracked(runner.runs)
          /\ \A name \in Names :
                runner'.runs[name] # runner.runs[name] =>
                   /\ runner.runs[name] = "running"
                   /\ runner'.runs[name] = "stale"
                   /\ runner.panes[name] = "dead" ]_vars

\* reconcile marked the run of "a", whose pane was dead, and left the run of
\* "b", whose liveness check failed, running
C22_Witness ==
    /\ lastOp.op = "reconcile" /\ lastOp.ok
    /\ lastOp.arg["a"] = "running" /\ runner.runs["a"] = "stale" /\ runner.panes["a"] = "dead"
    /\ lastOp.arg["b"] = "running" /\ runner.runs["b"] = "running" /\ runner.panes["b"] = "error"

\* the call for the PRD has returned, and not because the PRD has no run
Returns(name) == runner.calls[name].pc = "done" /\ runner.calls[name].res # "NOT_RUNNING"

\* C38: once a call for "a" and a call for "b" have both returned, whatever
\* the order of their load, temporary-file write and rename steps, both have
\* returned ok and runner.json holds the change of each.
C38_RunTrackingLosesNoUpdate ==
    Returns("a") /\ Returns("b") =>
        \A name \in Names :
            /\ runner.calls[name].res = "ok"
            /\ runner.runs = Changed(runner.runs, name, runner.calls[name].op,
                                     runner.calls[name].status)

\* both calls have returned ok and runner.json holds both changes, one of
\* which removed a run and one of which marked a run completed
C38_Witness ==
    /\ \A name \in Names :
          /\ runner.calls[name].res = "ok"
          /\ runner.runs = Changed(runner.runs, name, runner.calls[name].op,
                                   runner.calls[name].status)
    /\ runner.calls["a"].op = "removeRun"
    /\ runner.calls["b"].op = "updateRunStatus" /\ runner.calls["b"].status = "completed"

----------------------------------------------------------------------------
(* Properties of the logger *)

\* C39: an entry passed to write is appended to the log file without a further
\* write call, provided mkdir and appendFile succeed: while an entry is in the
\* buffer a flush is set up that will take it, also when the entry arrived
\* after a flush took the buffer and before that flush ended; and no entry is
\* anywhere but in the buffer, in the batch of the flush, in the file, or in
\* a batch that failed.
C39_BufferedEntryHasAFlush ==
    /\ fileOutput.failed = {} /\ Len(fileOutput.buffer) > 0 => fileOutput.flushPromise
    /\ fileOutput.flushPromise <=> fileOutput.pc # "none"
    /\ 1..fileOutput.written =
          Range(fileOutput.buffer) \cup Range(fileOutput.entries)
          \cup {fileOutput.file[k].json : k \in 1..Len(fileOutput.file)} \cup fileOutput.failed

\* an entry arrived while mkdir or appendFile was awaited; that flush has
\* ended with its batch in the file and the entry is in the buffer
C39_Witness ==
    /\ fileOutput.pc = "none"
    /\ Len(fileOutput.file) > 0
    /\ Len(fileOutput.buffer) > 0
    /\ fileOutput.failed = {}

----------------------------------------------------------------------------
(* Properties of the signal detector *)

\* the text in lower case
ToLowerCase(text) ==
    CASE text = "COMPLETED" -> "completed"
      [] text = "Blocked" -> "blocked"
      [] OTHER -> text

\* the reference: blocked when a blocked pattern matches, else completed with
\* two or more completion patterns, else the status of the JSON fragment, else none
StatusReference(output) ==
    IF output.block # {} THEN "blocked"
    ELSE IF Cardinality(output.completion) >= 2 THEN "completed"
    ELSE IF output.json # "none" THEN ToLowerCase(output.json)
    ELSE "null"

\* C28: parseStatusFromOutput returns completed, blocked or none, as the
\* reference does: blocked if any blocked pattern matches, whatever else
\* matches; otherwise completed with at least two completion patterns;
\* otherwise the status of the first JSON fragment with a status of completed
\* or blocked; otherwise none; never completed on one completion match alone.
C28_ParseStatusEqualsReference ==
    lastOp.op = "parseStatusFromOutput" =>
        /\ lastOp.ret \in {"completed", "blocked", "null"}
        /\ lastOp.ret = StatusReference(lastOp.arg)
        /\ Cardinality(lastOp.arg.completion) = 1 /\ lastOp.arg.json = "none"
             => lastOp.ret # "completed"

\* an output that matches no pattern and embeds a fragment with status COMPLETED
C28_Witness ==
    /\ lastOp.op = "parseStatusFromOutput"
    /\ lastOp.arg = Output(FALSE, {}, {}, "COMPLETED")

----------------------------------------------------------------------------
(* Properties of the agent process *)

\* C29: when the child has ended, runAgent with stream = true has resolved with
\* the same output and exit code as runAgent with stream = false, and that
\* output is standard output followed by standard error.
C29_StreamReturnsSameAsPlain ==
    child[TRUE].pc = "closed" =>
        /\ child[TRUE].output = child[FALSE].output
        /\ child[TRUE].exitCode = child[FALSE].exitCode
        /\ child[TRUE].output = child[TRUE].stdout \o child[TRUE].stderr

\* one stream-json assistant event on standard output and a word on standard error
C29_Witness ==
    /\ child[TRUE].pc = "closed" /\ child[FALSE].pc = "closed"
    /\ child[TRUE].stdout = <<AssistantEvent, LF>> /\ child[TRUE].stderr = <<"e">>
    /\ child[TRUE].output = <<"x">>
    /\ child[FALSE].output = <<AssistantEvent, LF, "e">>

====
